---- MODULE Spec2Model ----
(***************************************************************************)
(* csv-data-insights: the tRPC router (server/routers.ts), the persistence *)
(* layer (server/db.ts) and the analysis helpers, as a state machine.      *)
(*                                                                         *)
(* Text is a sequence of one-character strings, so that trim, split and    *)
(* join are computed and not assumed.  A JavaScript number is a record     *)
(* [k, v]: k = "fin" with the integer v, k = "inf" with the sign v, or     *)
(* k = "nan".                                                              *)
(***************************************************************************)
EXTENDS Integers, Sequences, FiniteSets, TLC

VARIABLES
  \* ---- the pure helpers of routers.ts, applied to drawn inputs
  headers,              \* analyzeDataStructure: headers argument
  rows,                 \* analyzeDataStructure: rows argument
  analysis,             \* analyzeDataStructure: returned value, or NoValue
  values,               \* calculateStatistics: values argument
  statistics,           \* calculateStatistics: returned value, or NoValue
  \* ---- the relational store (drizzle/schema.ts)
  csvDatasets,          \* rows of table csvDatasets
  dataInsights,         \* rows of table dataInsights
  dataCleaningResults,  \* rows of table dataCleaningResults
  chartConfigs,         \* rows of table chartConfigs
  users,                \* rows of table users
  autoIncrement,        \* next AUTO_INCREMENT id of each table
  now,                  \* the store's clock, in whole seconds (timestamp)
  \* ---- requests
  generate,             \* insights.generate: each in-flight request's position
  clean,                \* cleaning.clean: each in-flight request's position
  export,               \* cleaning.exportAsDataset: each in-flight request's position
  reply,                \* the response of the last completed procedure call
  \* ---- the DataCharts component of the client
  props,                \* DataCharts: the props data and insights
  baseChartData,        \* DataCharts: the memoised charts of the props
  customConfigs,        \* DataCharts: the state chartConfigs, by chart index
  \* ---- history, read by the properties only
  history               \* per generate request: what it found and who ran beside it

pureVars == <<headers, rows, analysis, values, statistics>>
\* the tables the csv, insights and cleaning routers do not touch
otherTables == <<chartConfigs, users>>
storeVars ==
  <<csvDatasets, dataInsights, dataCleaningResults, otherTables, autoIncrement, now>>
requestVars == <<generate, clean, export, reply>>
chartVars == <<props, baseChartData, customConfigs>>
vars == <<pureVars, chartVars, storeVars, requestVars, history>>

NoValue == [none |-> TRUE]

(***************************************************************************)
(* JavaScript strings and numbers                                          *)
(***************************************************************************)
Whitespace == {" ", "\n", "\t", "\r"}
Digits == {"0", "1", "2", "3", "4", "5", "6", "7", "8", "9"}

RECURSIVE TrimStart(_)
TrimStart(s) ==
  IF s # <<>> /\ Head(s) \in Whitespace THEN TrimStart(Tail(s)) ELSE s

RECURSIVE TrimEnd(_)
TrimEnd(s) ==
  IF s # <<>> /\ s[Len(s)] \in Whitespace
  THEN TrimEnd(SubSeq(s, 1, Len(s) - 1)) ELSE s

\* String.prototype.trim
Trim(s) == TrimEnd(TrimStart(s))

Fin(n) == [k |-> "fin", v |-> n]
Infinite(sign) == [k |-> "inf", v |-> sign]
NaN == [k |-> "nan", v |-> 0]

DigitValue(c) ==
  CASE c = "0" -> 0 [] c = "1" -> 1 [] c = "2" -> 2 [] c = "3" -> 3
    [] c = "4" -> 4 [] c = "5" -> 5 [] c = "6" -> 6 [] c = "7" -> 7
    [] c = "8" -> 8 [] c = "9" -> 9

\* the value of the longest run of digits that starts s, given the value so far
RECURSIVE DigitRun(_, _)
DigitRun(s, acc) ==
  IF s # <<>> /\ Head(s) \in Digits
  THEN DigitRun(Tail(s), 10 * acc + DigitValue(Head(s))) ELSE acc

InfinityText == <<"I", "n", "f", "i", "n", "i", "t", "y">>

StartsWith(s, p) == Len(s) >= Len(p) /\ SubSeq(s, 1, Len(p)) = p

\* parseFloat on text without '.', 'e' or 'E': leading whitespace is skipped,
\* one sign is accepted, then "Infinity" or the longest run of digits is read
\* and whatever follows is ignored; no digit at all gives NaN.
ParseFloat(s) ==
  LET t == TrimStart(s)
      signed == t # <<>> /\ Head(t) \in {"+", "-"}
      sign == IF signed /\ Head(t) = "-" THEN -1 ELSE 1
      u == IF signed THEN Tail(t) ELSE t
  IN IF StartsWith(u, InfinityText) THEN Infinite(sign)
     ELSE IF u # <<>> /\ Head(u) \in Digits THEN Fin(sign * DigitRun(u, 0))
     ELSE NaN

IsNaN(x) == x.k = "nan"

\* a - b on numbers
Minus(a, b) ==
  CASE a.k = "nan" \/ b.k = "nan" -> NaN
    [] a.k = "fin" /\ b.k = "fin" -> Fin(a.v - b.v)
    [] a.k = "inf" /\ b.k = "fin" -> a
    [] a.k = "fin" /\ b.k = "inf" -> Infinite(-b.v)
    [] a.k = "inf" /\ b.k = "inf" -> IF a.v = b.v THEN NaN ELSE a

\* x > 0, x < 0 (both false of NaN)
Positive(x) == (x.k = "fin" /\ x.v > 0) \/ (x.k = "inf" /\ x.v > 0)
Negative(x) == (x.k = "fin" /\ x.v < 0) \/ (x.k = "inf" /\ x.v < 0)

\* a <= b on numbers (false when either is NaN or the difference is)
Leq(a, b) == LET d == Minus(b, a) IN Positive(d) \/ d = Fin(0)
              \/ (a.k = "inf" /\ a = b)

Plus(a, b) ==
  CASE a.k = "nan" \/ b.k = "nan" -> NaN
    [] a.k = "fin" /\ b.k = "fin" -> Fin(a.v + b.v)
    [] a.k = "inf" /\ b.k = "fin" -> a
    [] a.k = "fin" /\ b.k = "inf" -> b
    [] a.k = "inf" /\ b.k = "inf" -> IF a.v = b.v THEN a ELSE NaN

\* what indexing an array outside its bounds gives
Undefined == [k |-> "undefined", v |-> 0]

\* array[i] with JavaScript's zero-based index
At(array, i) == IF i + 1 \in DOMAIN array THEN array[i + 1] ELSE Undefined

Null == [k |-> "null", v |-> 0]

(***************************************************************************)
(* Text: split, join, lower case, includes                                 *)
(***************************************************************************)
NewLine == "\n"
Comma == ","
Quote == "\""

\* the first position of character c in s, 0 when there is none
RECURSIVE IndexOf(_, _)
IndexOf(s, c) ==
  IF s = <<>> THEN 0
  ELSE IF Head(s) = c THEN 1
  ELSE LET i == IndexOf(Tail(s), c) IN IF i = 0 THEN 0 ELSE i + 1

\* String.prototype.split with a one-character separator
RECURSIVE Split(_, _)
Split(s, sep) ==
  LET i == IndexOf(s, sep)
  IN IF i = 0 THEN <<s>>
     ELSE <<SubSeq(s, 1, i - 1)>> \o Split(SubSeq(s, i + 1, Len(s)), sep)

\* Array.prototype.join with the separator text sep
RECURSIVE Join(_, _)
Join(cells, sep) ==
  IF cells = <<>> THEN <<>>
  ELSE IF Len(cells) = 1 THEN cells[1]
  ELSE cells[1] \o sep \o Join(Tail(cells), sep)

\* array.slice(from, to) with zero-based from, and to exclusive
Slice(array, from, to) ==
  SubSeq(array, from + 1, IF to < Len(array) THEN to ELSE Len(array))

UpperCase == <<"A", "B", "C", "D", "E", "F", "G", "H", "I", "J", "K", "L", "M",
               "N", "O", "P", "Q", "R", "S", "T", "U", "V", "W", "X", "Y", "Z">>
LowerCase == <<"a", "b", "c", "d", "e", "f", "g", "h", "i", "j", "k", "l", "m",
               "n", "o", "p", "q", "r", "s", "t", "u", "v", "w", "x", "y", "z">>

LowerChar(c) ==
  IF \E i \in DOMAIN UpperCase : UpperCase[i] = c
  THEN LowerCase[CHOOSE i \in DOMAIN UpperCase : UpperCase[i] = c]
  ELSE c

\* String.prototype.toLowerCase
ToLowerCase(s) == [i \in DOMAIN s |-> LowerChar(s[i])]

\* String.prototype.includes
Includes(s, part) ==
  \E i \in 0..(Len(s) - Len(part)) : SubSeq(s, i + 1, i + Len(part)) = part

\* line.split(',').map(cell => cell.trim())
SplitCells(line) ==
  LET cells == Split(line, Comma) IN [i \in DOMAIN cells |-> Trim(cells[i])]

\* the text is split as it is, without text.trim()
UntrimmedTextMutant(text) ==
  LET lines == Split(text, NewLine)
  IN [headers |-> SplitCells(lines[1]),
      rows |-> [i \in DOMAIN Tail(lines) |-> SplitCells(Tail(lines)[i])]]

\* parseCSV of the client, and the same three lines in exportAsDataset
parseCSV(text) ==
  LET lines == Split(Trim(text), NewLine)
  IN [headers |-> SplitCells(lines[1]),
      rows |-> [i \in DOMAIN Tail(lines) |-> SplitCells(Tail(lines)[i])]]

\* rows.map(r => r.join(','))
JoinRows(rs) == [i \in DOMAIN rs |-> Join(rs[i], <<Comma>>)]

\* the quote-aware cell loop of clean: the cells pushed so far, the cell
\* being built and whether the position is inside quotes
RECURSIVE QuotedCells(_, _, _, _)
QuotedCells(line, cells, current, inQuotes) ==
  IF line = <<>> THEN Append(cells, Trim(current))
  ELSE LET char == Head(line)
       IN IF char = Quote
          THEN QuotedCells(Tail(line), cells, current, ~inQuotes)
          ELSE IF char = Comma /\ ~inQuotes
          THEN QuotedCells(Tail(line), Append(cells, Trim(current)), <<>>, FALSE)
          ELSE QuotedCells(Tail(line), cells, Append(current, char), inQuotes)

\* the line is split at every comma
PlainSplitMutant(line) == SplitCells(line)

\* the cells of a line of the CSV that clean is given
ParseLine(line) == QuotedCells(line, <<>>, <<>>, FALSE)

(***************************************************************************)
(* IEEE-754 binary64: n * 0.7 for an integer 0 <= n < 1024, and its        *)
(* comparison with an integer.  0.7 is the double Mantissa07 * 2^-53; the  *)
(* exact product is rounded to 53 significant bits, ties to even.  Big     *)
(* integers are three limbs <<low, middle, high>> in base 2^20.            *)
(***************************************************************************)
Limb == 2^20
Mantissa07 == <<419430, 419430, 5734>>

RECURSIVE BitLength(_)
BitLength(n) == IF n = 0 THEN 0 ELSE 1 + BitLength(n \div 2)

\* the limbs of n * Mantissa07, carries propagated
ExactProduct07(n) ==
  LET p0 == n * Mantissa07[1]
      p1 == n * Mantissa07[2] + p0 \div Limb
      p2 == n * Mantissa07[3] + p1 \div Limb
  IN <<p0 % Limb, p1 % Limb, p2>>

\* the product rounded to a double: the limbs of fl(n * 0.7) * 2^53
RoundToDouble(p) ==
  LET shift == 40 + BitLength(p[3]) - 53      \* low bits that do not fit
      unit == 2^shift
      rem == p[1] % unit
      odd == (p[1] \div unit) % 2 = 1
      up == shift > 0 /\ (2 * rem > unit \/ (2 * rem = unit /\ odd))
      r0 == p[1] - rem + (IF up THEN unit ELSE 0)
      r1 == p[2] + r0 \div Limb
  IN IF p[3] = 0 THEN p ELSE <<r0 % Limb, r1 % Limb, p[3] + r1 \div Limb>>

\* count > length * 0.7, as the double comparison the code performs
\* (count * 2^53 has zero low and middle limbs, so the high limbs decide)
GreaterThanTimes07(count, length) ==
  count * 2^13 > RoundToDouble(ExactProduct07(length))[3]

(***************************************************************************)
(* calculateStatistics                                                     *)
(***************************************************************************)
\* the comparator (a, b) => a - b puts a strictly before b; numbers that it
\* ties (a zero or NaN difference) are the same number, so the order in which
\* a sort leaves ties cannot be seen
Before(a, b) == Negative(Minus(a, b))

SortMutant(s) == s

\* [...values].sort((a, b) => a - b)
Sorted(s) == SortSeq(s, Before)

\* a reduce (sum) or scan (Math.min, Math.max) over the list, evaluated by
\* halves: the three operations are associative
RECURSIVE Sum(_)
Sum(s) ==
  IF s = <<>> THEN Fin(0)
  ELSE IF Len(s) = 1 THEN s[1]
  ELSE LET h == Len(s) \div 2
       IN Plus(Sum(SubSeq(s, 1, h)), Sum(SubSeq(s, h + 1, Len(s))))

Smaller(a, b) == IF Before(b, a) THEN b ELSE a
Larger(a, b) == IF Before(a, b) THEN b ELSE a

\* Math.min(...values)
RECURSIVE MathMin(_)
MathMin(s) ==
  IF s = <<>> THEN Infinite(1)
  ELSE IF Len(s) = 1 THEN s[1]
  ELSE LET h == Len(s) \div 2
       IN Smaller(MathMin(SubSeq(s, 1, h)), MathMin(SubSeq(s, h + 1, Len(s))))

\* Math.max(...values)
RECURSIVE MathMax(_)
MathMax(s) ==
  IF s = <<>> THEN Infinite(-1)
  ELSE IF Len(s) = 1 THEN s[1]
  ELSE LET h == Len(s) \div 2
       IN Larger(MathMax(SubSeq(s, 1, h)), MathMax(SubSeq(s, h + 1, Len(s))))

\* the median of an even number of values is the lower of the two middle ones
LowerMedianMutant(vals) ==
  LET sorted == Sorted(vals)
      n == Len(sorted)
      q1 == At(sorted, n \div 4)
      q3 == At(sorted, (3 * n) \div 4)
  IN [mean |-> [sum |-> Sum(vals), n |-> Len(vals)],
      median |-> At(sorted, (n - 1) \div 2),
      min |-> MathMin(vals),
      max |-> MathMax(vals),
      q1 |-> q1,
      q3 |-> q3,
      iqr |-> IF q1 = Undefined \/ q3 = Undefined THEN NaN ELSE Minus(q3, q1)]

\* mean is kept as the exact quotient sum / n; variance and stdDev are doubles
\* derived from it that nothing below reads, and are left out of the record.
calculateStatistics(vals) ==
  LET sorted == Sorted(vals)
      n == Len(sorted)
      q1 == At(sorted, n \div 4)              \* Math.floor(n * 0.25)
      q3 == At(sorted, (3 * n) \div 4)        \* Math.floor(n * 0.75)
  IN [mean |-> [sum |-> Sum(vals), n |-> Len(vals)],
      median |-> At(sorted, n \div 2),        \* Math.floor(n / 2)
      min |-> MathMin(vals),
      max |-> MathMax(vals),
      q1 |-> q1,
      q3 |-> q3,
      iqr |-> IF q1 = Undefined \/ q3 = Undefined THEN NaN ELSE Minus(q3, q1)]

(***************************************************************************)
(* analyzeDataStructure                                                    *)
(***************************************************************************)
Range(s) == {s[i] : i \in DOMAIN s}

\* r[colIdx]: a cell, or Undefined past the end of a ragged row
Cell(r, colIdx) == At(r, colIdx)

\* the filter keeps every cell that exists
PresentMutant(v) == v # Undefined

\* v && v.trim(): the cell exists, is not "" and is not only whitespace

Present(v) == v # Undefined /\ v # <<>> /\ Trim(v) # <<>>

\* rows.map(r => r[colIdx]).filter(v => v && v.trim())
PresentValues(table, colIdx) ==
  SelectSeq([i \in DOMAIN table |-> Cell(table[i], colIdx)], Present)

\* values.map(v => parseFloat(v)).filter(v => !isNaN(v))
NotNaN(x) == ~IsNaN(x)
NumericValues(vals) ==
  SelectSeq([i \in DOMAIN vals |-> ParseFloat(vals[i])], NotNaN)

\* statistics are attached whenever a value parses, whatever the type
AnyNumericMutant(hdrs, table, colIdx) ==
  LET vals == PresentValues(table, colIdx)
      numericValues == NumericValues(vals)
      column == [name |-> hdrs[colIdx + 1],
                 type |-> IF GreaterThanTimes07(Len(numericValues), Len(vals))
                          THEN "numeric" ELSE "categorical",
                 uniqueCount |-> Cardinality(Range(vals)),
                 missingCount |-> Len(table) - Len(vals)]
  IN IF Len(numericValues) > 0
     THEN column @@ ("statistics" :> calculateStatistics(numericValues))
     ELSE column

\* one pass of the loop over colIdx; missingPercent is a display string
\* ((missing / rows * 100).toFixed(2)) that nothing below reads
Column(hdrs, table, colIdx) ==
  LET vals == PresentValues(table, colIdx)
      numericValues == NumericValues(vals)
      column == [name |-> hdrs[colIdx + 1],
                 type |-> IF GreaterThanTimes07(Len(numericValues), Len(vals))
                          THEN "numeric" ELSE "categorical",
                 uniqueCount |-> Cardinality(Range(vals)),
                 missingCount |-> Len(table) - Len(vals)]
  IN IF column.type = "numeric" /\ Len(numericValues) > 0
     THEN column @@ ("statistics" :> calculateStatistics(numericValues))
     ELSE column

analyzeDataStructure(hdrs, table) ==
  [totalRows |-> Len(table),
   totalColumns |-> Len(hdrs),
   columns |-> [c \in 1..Len(hdrs) |-> Column(hdrs, table, c - 1)]]

(***************************************************************************)
(* The store and the requests, before any request                          *)
(***************************************************************************)
Tables == {"csvDatasets", "dataInsights", "dataCleaningResults", "chartConfigs", "users"}

NoReply == [op |-> "none"]

StoreEmpty ==
  /\ csvDatasets = {}
  /\ dataInsights = {}
  /\ dataCleaningResults = {}
  /\ chartConfigs = {}
  /\ users = {}
  /\ autoIncrement = [t \in Tables |-> 1]
  /\ now = 0

\* DataCharts is mounted without data and no chart is customised
NoCharts ==
  /\ props = [data |-> Null, insights |-> <<>>]
  /\ baseChartData = <<>>
  /\ customConfigs = <<>>

NoPureInput ==
  /\ headers = <<>>
  /\ rows = <<>>
  /\ analysis = NoValue
  /\ values = <<>>
  /\ statistics = NoValue

(***************************************************************************)
(* The helpers applied to drawn inputs                                     *)
(***************************************************************************)
SeqsUpTo(S, n) == UNION {[1..m -> S] : m \in 0..n}

MaxValues == 5
StatValues == {Fin(-3), Fin(0), Fin(2), Fin(7)}

InitStatistics ==
  /\ values \in SeqsUpTo(StatValues, MaxValues)
  /\ statistics = NoValue
  /\ headers = <<>> /\ rows = <<>> /\ analysis = NoValue
  /\ StoreEmpty
  /\ NoCharts
  /\ generate = <<>> /\ clean = <<>> /\ export = <<>> /\ reply = NoReply /\ history = <<>>

\* calculateStatistics(values), called as analyzeDataStructure calls it:
\* only with at least one value
CalculateStatistics ==
  /\ statistics = NoValue
  /\ Len(values) > 0
  /\ statistics' = calculateStatistics(values)
  /\ UNCHANGED <<headers, rows, analysis, values, chartVars, storeVars, requestVars,
                 history>>

SpecStatistics == InitStatistics /\ [][CalculateStatistics]_vars

MaxRows == 2
MaxCells == 2
CellTexts == {<<>>, <<"7">>, <<"x">>}
HeaderLists == {<<"a">>, <<"a", "b", "c">>}

InitAnalyze ==
  /\ headers \in HeaderLists
  /\ rows \in SeqsUpTo(SeqsUpTo(CellTexts, MaxCells), MaxRows)
  /\ analysis = NoValue
  /\ values = <<>> /\ statistics = NoValue
  /\ StoreEmpty
  /\ NoCharts
  /\ generate = <<>> /\ clean = <<>> /\ export = <<>> /\ reply = NoReply /\ history = <<>>

\* analyzeDataStructure(headers, rows)
Analyze ==
  /\ analysis = NoValue
  /\ analysis' = analyzeDataStructure(headers, rows)
  /\ UNCHANGED <<headers, rows, values, statistics, chartVars, storeVars, requestVars,
                 history>>

SpecAnalyze == InitAnalyze /\ [][Analyze]_vars

\* a column of up to MaxInfiniteRows cells "7", "Infinity", "-Infinity" or "x"
MaxInfiniteRows == 3
InfiniteTexts ==
  {<<"7">>, InfinityText, <<"-">> \o InfinityText, <<"x">>}

InitInfinite ==
  /\ headers = <<"a">>
  /\ rows \in SeqsUpTo({<<text>> : text \in InfiniteTexts}, MaxInfiniteRows)
  /\ analysis = NoValue
  /\ values = <<>> /\ statistics = NoValue
  /\ StoreEmpty
  /\ NoCharts
  /\ generate = <<>> /\ clean = <<>> /\ export = <<>> /\ reply = NoReply /\ history = <<>>

SpecInfinite == InitInfinite /\ [][Analyze]_vars

\* one column of `numeric` cells that parse, `text` cells that do not and
\* `blank` cells that are not present
TallColumn(numeric, text, blank) ==
  [i \in 1..(numeric + text + blank) |->
     IF i <= numeric THEN <<<<"7">>>>
     ELSE IF i <= numeric + text THEN <<<<"x">>>> ELSE <<<<" ">>>>]

MaxPresent == 90

InitThreshold ==
  /\ headers = <<"a">>
  /\ \E present \in 0..MaxPresent, blank \in 0..1 : \E numeric \in 0..present :
       rows = TallColumn(numeric, present - numeric, blank)
  /\ analysis = NoValue
  /\ values = <<>> /\ statistics = NoValue
  /\ StoreEmpty
  /\ NoCharts
  /\ generate = <<>> /\ clean = <<>> /\ export = <<>> /\ reply = NoReply /\ history = <<>>

SpecThreshold == InitThreshold /\ [][Analyze]_vars

(***************************************************************************)
(* insights.generate                                                       *)
(*                                                                         *)
(* The handler awaits the delete statement, the LLM call and each insert   *)
(* statement in turn; another request's statements can run at every await. *)
(* The CSV parse and analyzeDataStructure between the delete and the LLM   *)
(* call only build the prompt.                                             *)
(***************************************************************************)
GenerateRequests == {"g1", "g2"}
DatasetIds == {1, 2}

MaxBatch == 2
MaxInsightRows == 4

\* the elements an LLM answer is built from, in the order it lists them
InsightList ==
  <<[category |-> "overview", title |-> "Size", content |-> "2 rows", confidence |-> 90],
    [category |-> "risks", title |-> "Gaps", content |-> "1 blank", confidence |-> 40],
    [category |-> "quality", title |-> "Types", content |-> "mixed", confidence |-> 65]>>

\* what invokeLLM can give: it throws, or it resolves with a message content
\* that is empty, is not JSON, is the JSON null, or is a JSON object with or
\* without the field insights
GenerateResponses ==
  {[kind |-> "throw"], [kind |-> "empty"], [kind |-> "notJson"], [kind |-> "null"],
   [kind |-> "object", fields |-> <<>>]}
  \cup {[kind |-> "object", fields |-> [insights |-> SubSeq(InsightList, 1, n)]] :
          n \in 0..MaxBatch}

Idle == [pc |-> "idle"]

InsightsOf(d) == {x \in dataInsights : x.datasetId = d}

\* the requests for dataset d, other than r, that are between their delete
\* and their return
Beside(r, d) ==
  {q \in GenerateRequests \ {r} :
     generate[q].pc \in {"llm", "insert"} /\ generate[q].datasetId = d}

\* history: a statement on d ran beside every request in flight on d
Overlap(r, d) ==
  [q \in GenerateRequests |->
     IF q \in Beside(r, d) THEN [history[q] EXCEPT !.overlapped = TRUE]
     ELSE history[q]]

\* the delete statement matches no row
DeleteNothingMutant(d) == dataInsights

\* the delete statement has no where clause
DeleteAllMutant(d) == {}

\* the delete statement leaves the oldest row of the dataset
KeepOldestMutant(d) ==
  {x \in dataInsights :
     x.datasetId = d => \A y \in dataInsights : y.datasetId = d => x.id <= y.id}

\* db.deleteDatasetInsights(datasetId): the rows that stay
deleteDatasetInsights(d) == {x \in dataInsights : x.datasetId # d}

\* title and content are stored in each other's column
SwappedColumnsMutant(d, insightType, title, content, confidence) ==
  [id |-> autoIncrement.dataInsights,
   datasetId |-> d,
   insightType |-> insightType,
   title |-> content,
   content |-> title,
   confidence |-> confidence]

\* db.createDataInsight(datasetId, insightType, title, content, confidence):
\* the row inserted
createDataInsight(d, insightType, title, content, confidence) ==
  [id |-> autoIncrement.dataInsights,
   datasetId |-> d,
   insightType |-> insightType,
   title |-> title,
   content |-> content,
   confidence |-> confidence]

\* history of a request and, once it has returned, of the last one: its
\* dataset, the id the first row inserted after its delete gets, the rows it
\* inserted, whether a statement of another request on its dataset ran
\* between its delete and its return, and how it ended
NoHistory ==
  [datasetId |-> 0, firstNew |-> 0, inserted |-> {}, overlapped |-> FALSE,
   outcome |-> "none"]

Ended(r, outcome) == [history EXCEPT ![r].outcome = outcome]

\* the request arrives and its delete statement runs
GenerateDelete(r, d) ==
  /\ generate[r].pc = "idle"
  /\ dataInsights' = deleteDatasetInsights(d)
  /\ generate' = [generate EXCEPT ![r] = [pc |-> "llm", datasetId |-> d]]
  /\ history' = [Overlap(r, d) EXCEPT
                   ![r] = [datasetId |-> d,
                           firstNew |-> autoIncrement.dataInsights,
                           inserted |-> {},
                           overlapped |-> FALSE,
                           outcome |-> "running"]]
  /\ UNCHANGED <<pureVars, chartVars, otherTables, csvDatasets, dataCleaningResults, autoIncrement, now,
                 clean, export, reply>>

\* the response of a generate request
GenerateReply(result) == [op |-> "insights.generate", result |-> result]

\* the catch block: TRPCError INTERNAL_SERVER_ERROR
GenerateFailed == [success |-> FALSE, message |-> "Failed to generate insights"]

\* parsed.insights || []
InsightsOrEmpty(fields) ==
  IF "insights" \in DOMAIN fields THEN fields.insights ELSE <<>>

\* the LLM call settles; the handler reads the content and parses it, and
\* returns at once when it failed or there is nothing to insert
GenerateLlmSettles(r, response) ==
  /\ generate[r].pc = "llm"
  /\ LET insights == IF response.kind = "object"
                     THEN InsightsOrEmpty(response.fields) ELSE <<>>
     IN IF response.kind # "object"
        THEN /\ generate' = [generate EXCEPT ![r] = Idle]
             /\ reply' = GenerateReply(GenerateFailed)
             /\ history' = Ended(r, "failed")
        ELSE IF insights = <<>>
        THEN /\ generate' = [generate EXCEPT ![r] = Idle]
             /\ reply' = GenerateReply([success |-> TRUE, count |-> 0])
             /\ history' = Ended(r, "success")
        ELSE /\ generate' = [generate EXCEPT ![r] =
                  [pc |-> "insert", datasetId |-> @.datasetId,
                   insights |-> insights, next |-> 1]]
             /\ UNCHANGED <<reply, history>>
  /\ UNCHANGED <<pureVars, chartVars, storeVars, clean, export>>

\* one pass of the loop: the insert statement runs; after the last one the
\* handler returns the count
GenerateInsert(r) ==
  /\ generate[r].pc = "insert"
  /\ autoIncrement.dataInsights <= MaxInsightRows
  /\ LET g == generate[r]
         insight == g.insights[g.next]
         row == createDataInsight(g.datasetId, insight.category, insight.title,
                                  insight.content, insight.confidence)
         last == g.next = Len(g.insights)
     IN /\ dataInsights' = dataInsights \cup {row}
        /\ autoIncrement' = [autoIncrement EXCEPT !.dataInsights = @ + 1]
        /\ generate' = [generate EXCEPT ![r] =
                          IF last THEN Idle ELSE [g EXCEPT !.next = @ + 1]]
        /\ reply' = IF last
                    THEN GenerateReply([success |-> TRUE, count |-> Len(g.insights)])
                    ELSE reply
        /\ history' = [Overlap(r, g.datasetId) EXCEPT
                         ![r].inserted = @ \cup {row},
                         ![r].outcome = IF last THEN "success" ELSE @]
  /\ UNCHANGED <<pureVars, chartVars, otherTables, csvDatasets, dataCleaningResults, now, clean,
                 export>>

\* an insert statement throws (the store is gone, the statement is refused)
GenerateInsertThrows(r) ==
  /\ generate[r].pc = "insert"
  /\ generate' = [generate EXCEPT ![r] = Idle]
  /\ reply' = GenerateReply(GenerateFailed)
  /\ history' = Ended(r, "failed")
  /\ UNCHANGED <<pureVars, chartVars, storeVars, clean, export>>

InitInsights ==
  /\ NoPureInput
  /\ StoreEmpty
  /\ NoCharts
  /\ generate = [r \in GenerateRequests |-> Idle]
  /\ clean = <<>>
  /\ export = <<>>
  /\ reply = NoReply
  /\ history = [r \in GenerateRequests |-> NoHistory]

NextInsights ==
  \E r \in GenerateRequests :
    \/ \E d \in DatasetIds : GenerateDelete(r, d)
    \/ \E response \in GenerateResponses : GenerateLlmSettles(r, response)
    \/ GenerateInsert(r)
    \/ GenerateInsertThrows(r)

SpecInsights == InitInsights /\ [][NextInsights]_vars

(***************************************************************************)
(* csv.upload, csv.list, csv.get, csv.delete                               *)
(* cleaning.clean, cleaning.getResult, cleaning.exportAsDataset            *)
(*                                                                         *)
(* A procedure with one statement on the store is one action.  clean       *)
(* awaits the LLM call before its insert, and exportAsDataset awaits two   *)
(* selects before its insert; other requests run at each await.  The       *)
(* columns createdAt and updatedAt of csvDatasets are left out: no handler *)
(* reads them.                                                             *)
(***************************************************************************)
Users == {1, 2}
CleanRequests == {"c1", "c2"}
ExportRequests == {"e1"}

MaxDatasets == 2
MaxCleaningResults == 2
MaxTime == 1

FileNames == {<<"f">>}
\* a file name with special characters: "m (1).csv"
SpecialName == <<"m", " ", "(", "1", ")", ".", "c", "s", "v">>
\* newFileName is optional: absent, "" or "g"
NewFileNames == {<<>>, <<"g">>}
ExportInputs ==
  {[user |-> u, datasetId |-> d] : u \in Users, d \in DatasetIds}
  \cup {[user |-> u, datasetId |-> d, newFileName |-> n] :
          u \in Users, d \in DatasetIds, n \in NewFileNames}

\* the files a user picks: "a, b\n1,2\n" and "a\n\"x,y\"\nNA\nNA"
PlainText == <<"a", ",", " ", "b", NewLine, "1", ",", "2", NewLine>>
QuotedText ==
  <<"a", NewLine, Quote, "x", ",", "y", Quote, NewLine, "N", "A", NewLine, "N", "A">>
CsvTexts == {PlainText, QuotedText}

\* rowCount counts the header line too
CountsHeaderMutant(fileName, text) ==
  LET csvData == parseCSV(text)
  IN [fileName |-> fileName,
      csvContent |-> Join(csvData.headers, <<Comma>>) \o <<NewLine>>
                     \o Join(JoinRows(csvData.rows), <<NewLine>>),
      headers |-> csvData.headers,
      rowCount |-> Len(csvData.rows) + 1]

\* handleUpload of the client: the input of csv.upload for a picked file
handleUpload(fileName, text) ==
  LET csvData == parseCSV(text)
  IN [fileName |-> fileName,
      csvContent |-> Join(csvData.headers, <<Comma>>) \o <<NewLine>>
                     \o Join(JoinRows(csvData.rows), <<NewLine>>),
      headers |-> csvData.headers,
      rowCount |-> Len(csvData.rows)]

UploadInputs == {handleUpload(f, t) : f \in FileNames, t \in CsvTexts}

\* the row db.createCsvDataset inserts
createCsvDataset(userId, fileName, rawCsv, hdrs, rowCount) ==
  [id |-> autoIncrement.csvDatasets,
   userId |-> userId,
   fileName |-> fileName,
   rawCsv |-> rawCsv,
   headers |-> hdrs,
   rowCount |-> rowCount]

\* the select has no where clause
AnyDatasetMutant(datasetId) ==
  IF csvDatasets # {} THEN CHOOSE x \in csvDatasets : TRUE ELSE Null

\* db.getCsvDataset(datasetId): where id = datasetId, limit 1
getCsvDataset(datasetId) ==
  IF \E x \in csvDatasets : x.id = datasetId
  THEN CHOOSE x \in csvDatasets : x.id = datasetId
  ELSE Null

\* db.getUserCsvDatasets(userId)
getUserCsvDatasets(userId) == {x \in csvDatasets : x.userId = userId}

\* the delete keeps the row and empties its rawCsv
SoftDeleteMutant(datasetId) ==
  {IF x.id = datasetId THEN [x EXCEPT !.rawCsv = <<>>] ELSE x : x \in csvDatasets}

\* db.deleteCsvDataset(datasetId): the rows that stay
deleteCsvDataset(datasetId) == {x \in csvDatasets : x.id # datasetId}

\* the insert keeps one row per dataset
ReplaceResultMutant(datasetId, originalCsv, cleanedCsv, cleaningReport) ==
  {x \in dataCleaningResults : x.datasetId # datasetId}
  \cup {[id |-> autoIncrement.dataCleaningResults,
         datasetId |-> datasetId,
         originalCsv |-> originalCsv,
         cleanedCsv |-> cleanedCsv,
         cleaningReport |-> cleaningReport,
         createdAt |-> now]}

\* db.createCleaningResult: the table after the insert; the store gives the
\* row the next id and the time of the insert, to the second
createCleaningResult(datasetId, originalCsv, cleanedCsv, cleaningReport) ==
  dataCleaningResults
  \cup {[id |-> autoIncrement.dataCleaningResults,
         datasetId |-> datasetId,
         originalCsv |-> originalCsv,
         cleanedCsv |-> cleanedCsv,
         cleaningReport |-> cleaningReport,
         createdAt |-> now]}

CleaningResultsOf(datasetId) ==
  {x \in dataCleaningResults : x.datasetId = datasetId}

\* db.getLatestCleaningResult(datasetId): order by createdAt desc, limit 1.
\* The order of rows with equal createdAt is not specified, so this is the
\* set of values the call can return.
getLatestCleaningResult(datasetId) ==
  IF CleaningResultsOf(datasetId) = {} THEN {Null}
  ELSE {x \in CleaningResultsOf(datasetId) :
          \A y \in CleaningResultsOf(datasetId) : y.createdAt <= x.createdAt}

TRPCError(code, message) == [error |-> code, message |-> message]

\* the response of a procedure call; input holds the call's input and, under
\* user, the ctx.user.id of the procedures that take it
Reply(op, input, result) == [op |-> op, input |-> input, result |-> result]

\* csv.upload
Upload(u, input) ==
  /\ autoIncrement.csvDatasets <= MaxDatasets
  /\ LET row == createCsvDataset(u, input.fileName, input.csvContent,
                                 input.headers, input.rowCount)
     IN /\ csvDatasets' = csvDatasets \cup {row}
        /\ reply' = Reply("csv.upload", [user |-> u] @@ input, [insertId |-> row.id])
  /\ autoIncrement' = [autoIncrement EXCEPT !.csvDatasets = @ + 1]
  /\ UNCHANGED <<pureVars, chartVars, otherTables, dataInsights, dataCleaningResults, now, generate,
                 clean, export, history>>

\* csv.list
List(u) ==
  /\ reply' = Reply("csv.list", [user |-> u], getUserCsvDatasets(u))
  /\ UNCHANGED <<pureVars, chartVars, storeVars, generate, clean, export, history>>

\* csv.get
Get(u, datasetId) ==
  /\ LET dataset == getCsvDataset(datasetId)
     IN reply' = Reply("csv.get", [user |-> u, datasetId |-> datasetId],
                       IF dataset = Null THEN TRPCError("NOT_FOUND", "")
                       ELSE dataset)
  /\ UNCHANGED <<pureVars, chartVars, storeVars, generate, clean, export, history>>

\* csv.delete
Delete(u, datasetId) ==
  /\ csvDatasets' = deleteCsvDataset(datasetId)
  /\ reply' = Reply("csv.delete", [user |-> u, datasetId |-> datasetId],
                    [success |-> TRUE])
  /\ UNCHANGED <<pureVars, chartVars, otherTables, dataInsights, dataCleaningResults, autoIncrement, now,
                 generate, clean, export, history>>

\* a second passes on the store's clock
Tick ==
  /\ now < MaxTime
  /\ now' = now + 1
  /\ UNCHANGED <<pureVars, chartVars, otherTables, csvDatasets, dataInsights, dataCleaningResults,
                 autoIncrement, requestVars, history>>

\* what invokeLLM can give to clean: it throws an error with a message, or it
\* resolves with a content that is empty, is not JSON, is the JSON null, or
\* is a JSON object with none or all of the four fields
AllFields ==
  [kind |-> "object",
   fields |-> [cleanedHeaders |-> <<<<"a">>, <<"b">>>>,
               cleanedRows |-> << <<<<"1">>, <<"2">>>> >>,
               changes |-> <<>>,
               summary |-> [totalChanges |-> 0, qualityScore |-> 100]]]
RenamedHeader ==
  [kind |-> "object",
   fields |-> [cleanedHeaders |-> <<<<"x">>>>,
               cleanedRows |-> <<>>,
               changes |-> <<[type |-> "header", reason |-> "renamed"]>>,
               summary |-> [totalChanges |-> 1, qualityScore |-> 80]]]
NoFields == [kind |-> "object", fields |-> <<>>]
\* an object whose header cells have blanks around them: " a" and "b "
SpacedHeaders ==
  [kind |-> "object",
   fields |-> [cleanedHeaders |-> <<<<" ", "a">>, <<"b", " ">>>>,
               cleanedRows |-> << <<<<"1">>, <<"2">>>> >>,
               changes |-> <<>>,
               summary |-> [totalChanges |-> 0, qualityScore |-> 100]]]
NotJson == [kind |-> "notJson"]
\* what the messages of the errors invokeLLM throws are made of: "timeout",
\* "ETIMEDOUT", "rate limit", "429", "network", "ECONNREFUSED", "Timeout", "fail"
ErrorWords ==
  {<<"t", "i", "m", "e", "o", "u", "t">>,
   <<"E", "T", "I", "M", "E", "D", "O", "U", "T">>,
   <<"r", "a", "t", "e", " ", "l", "i", "m", "i", "t">>,
   <<"4", "2", "9">>,
   <<"n", "e", "t", "w", "o", "r", "k">>,
   <<"E", "C", "O", "N", "N", "R", "E", "F", "U", "S", "E", "D">>,
   <<"T", "i", "m", "e", "o", "u", "t">>,
   <<"f", "a", "i", "l">>}

\* an error thrown by invokeLLM: its message is one word, or two with a space
\* between them; words records what the message was made of
ThrownErrors ==
  {[kind |-> "throw", words |-> <<w>>, message |-> w] : w \in ErrorWords}
  \cup {[kind |-> "throw", words |-> <<w1, w2>>, message |-> w1 \o <<" ">> \o w2] :
          w1 \in ErrorWords, w2 \in ErrorWords}

CleanResponses ==
  ThrownErrors
  \cup {[kind |-> "empty"], NotJson, [kind |-> "null"],
        NoFields, AllFields, RenamedHeader}

\* value || fallback, for a field of the parsed object
OrElse(fields, name, fallback) ==
  IF name \in DOMAIN fields THEN fields[name] ELSE fallback

\* !cell || cell.trim() === '' || cell.toLowerCase() is 'null', 'na' or 'n/a'
EmptyCell(cell) ==
  \/ cell = <<>>
  \/ Trim(cell) = <<>>
  \/ ToLowerCase(cell) \in {<<"n", "u", "l", "l">>, <<"n", "a">>, <<"n", "/", "a">>}

\* the two forEach loops over the cells
RECURSIVE EmptyValues(_)
EmptyValues(rs) ==
  IF rs = <<>> THEN 0
  ELSE Len(SelectSeq(Head(rs), EmptyCell)) + EmptyValues(Tail(rs))

\* dataAnalysis of clean
DataAnalysis(hdrs, rs) ==
  [totalRows |-> Len(rs),
   totalColumns |-> Len(hdrs),
   emptyValues |-> EmptyValues(rs),
   inconsistentFormats |-> <<>>,
   duplicateRows |-> Len(rs) - Cardinality({Join(r, <<"|">>) : r \in Range(rs)})]

\* the rules are tried in another order: network, rate limit, timeout
RuleOrderMutant(message) ==
  IF Includes(message, <<"n", "e", "t", "w", "o", "r", "k">>)
     \/ Includes(message, <<"E", "C", "O", "N", "N", "R", "E", "F", "U", "S", "E", "D">>)
  THEN "Network error occurred. Please check your internet connection."
  ELSE IF Includes(message, <<"r", "a", "t", "e", " ", "l", "i", "m", "i", "t">>)
          \/ Includes(message, <<"4", "2", "9">>)
  THEN "AI service is busy. Please try again later."
  ELSE IF Includes(message, <<"t", "i", "m", "e", "o", "u", "t">>)
          \/ Includes(message, <<"E", "T", "I", "M", "E", "D", "O", "U", "T">>)
  THEN "AI processing timed out. Please reduce data size or try again later."
  ELSE "An error occurred during data cleaning."

\* the message of the TRPCError the catch block of clean throws for an error
\* that is not a TRPCError
UserMessage(message) ==
  IF Includes(message, <<"t", "i", "m", "e", "o", "u", "t">>)
     \/ Includes(message, <<"E", "T", "I", "M", "E", "D", "O", "U", "T">>)
  THEN "AI processing timed out. Please reduce data size or try again later."
  ELSE IF Includes(message, <<"r", "a", "t", "e", " ", "l", "i", "m", "i", "t">>)
          \/ Includes(message, <<"4", "2", "9">>)
  THEN "AI service is busy. Please try again later."
  ELSE IF Includes(message, <<"n", "e", "t", "w", "o", "r", "k">>)
          \/ Includes(message, <<"E", "C", "O", "N", "N", "R", "E", "F", "U", "S", "E", "D">>)
  THEN "Network error occurred. Please check your internet connection."
  ELSE "An error occurred during data cleaning."

\* the message of the TypeError thrown by reading a property of null
NullPropertyMessage ==
  <<"C", "a", "n", "n", "o", "t", " ", "r", "e", "a", "d", " ",
    "p", "r", "o", "p", "e", "r", "t", "i", "e", "s", " ", "o", "f", " ",
    "n", "u", "l", "l">>

\* the response of a clean request; llm records the answer of the LLM call
\* it was built from
CleanReply(input, response, result) ==
  Reply("cleaning.clean", input, result) @@ [llm |-> response]

\* the request arrives; the handler parses the CSV, builds dataAnalysis and
\* calls the LLM
CleanStart(c, datasetId, text) ==
  /\ clean[c].pc = "idle"
  /\ clean' = [clean EXCEPT ![c] =
                 [pc |-> "llm", datasetId |-> datasetId,
                  csvContent |-> text, headers |-> parseCSV(text).headers]]
  /\ UNCHANGED <<pureVars, chartVars, storeVars, generate, export, reply, history>>

\* clean from the LLM's answer on: it fails, or it builds the cleaned CSV
\* and the report, stores them and returns them
CleanLlmSettles(c, response) ==
  /\ clean[c].pc = "llm"
  /\ LET input == [datasetId |-> clean[c].datasetId,
                   csvContent |-> clean[c].csvContent,
                   headers |-> clean[c].headers]
         lines == Split(Trim(input.csvContent), NewLine)
         rs == [i \in DOMAIN Tail(lines) |-> ParseLine(Tail(lines)[i])]
         dataAnalysis == DataAnalysis(input.headers, rs)
         failure ==
           CASE response.kind = "throw" ->
                  TRPCError("INTERNAL_SERVER_ERROR", UserMessage(response.message))
             [] response.kind = "empty" ->
                  TRPCError("INTERNAL_SERVER_ERROR",
                            "Empty response from AI. Please try again later.")
             [] response.kind = "notJson" ->
                  TRPCError("INTERNAL_SERVER_ERROR",
                            "Failed to parse AI response. Please try again.")
             [] response.kind = "null" ->
                  TRPCError("INTERNAL_SERVER_ERROR", UserMessage(NullPropertyMessage))
             [] OTHER -> Null
     IN IF response.kind # "object"
        THEN /\ reply' = CleanReply(input, response, failure)
             /\ UNCHANGED <<dataCleaningResults, autoIncrement>>
        ELSE LET cleaningResult == response.fields
                 cleanedHeaders == OrElse(cleaningResult, "cleanedHeaders", input.headers)
                 cleanedRows == OrElse(cleaningResult, "cleanedRows", Slice(rs, 0, 20))
                 cleanedCsv ==
                   Join(<<Join(cleanedHeaders, <<Comma>>)>>
                        \o JoinRows(cleanedRows), <<NewLine>>)
                 cleaningReport ==
                   [changes |-> OrElse(cleaningResult, "changes", <<>>),
                    summary |-> OrElse(cleaningResult, "summary",
                                       [totalChanges |-> 0, qualityScore |-> 100]),
                    originalStats |-> dataAnalysis,
                    timestamp |-> now]
             IN /\ autoIncrement.dataCleaningResults <= MaxCleaningResults
                /\ dataCleaningResults' =
                     createCleaningResult(input.datasetId, input.csvContent,
                                          cleanedCsv, cleaningReport)
                /\ autoIncrement' =
                     [autoIncrement EXCEPT !.dataCleaningResults = @ + 1]
                /\ reply' = CleanReply(input, response,
                                  [success |-> TRUE, cleanedCsv |-> cleanedCsv,
                                   report |-> cleaningReport])
  /\ clean' = [clean EXCEPT ![c] = Idle]
  /\ UNCHANGED <<pureVars, chartVars, otherTables, csvDatasets, dataInsights, now, generate, export, history>>

\* cleaning.getResult
GetResult(datasetId) ==
  /\ \E result \in getLatestCleaningResult(datasetId) :
       reply' = Reply("cleaning.getResult", [datasetId |-> datasetId], result)
  /\ UNCHANGED <<pureVars, chartVars, storeVars, generate, clean, export, history>>

\* `cleaned_${originalDataset.fileName}`
CleanedPrefix == <<"c", "l", "e", "a", "n", "e", "d", "_">>

\* input.newFileName ?? `cleaned_${originalDataset.fileName}`
EmptyNameMutant(input, originalDataset) ==
  IF "newFileName" \in DOMAIN input
  THEN input.newFileName
  ELSE CleanedPrefix \o originalDataset.fileName

\* input.newFileName || `cleaned_${originalDataset.fileName}`
NewFileName(input, originalDataset) ==
  IF "newFileName" \in DOMAIN input /\ input.newFileName # <<>>
  THEN input.newFileName
  ELSE CleanedPrefix \o originalDataset.fileName

\* exportAsDataset: the request arrives and the latest result is selected
ExportGetLatest(e, input) ==
  /\ export[e].pc = "idle"
  /\ \E cleaningResult \in getLatestCleaningResult(input.datasetId) :
       IF cleaningResult = Null
       THEN /\ reply' = Reply("cleaning.exportAsDataset", input,
                              TRPCError("NOT_FOUND",
                                "Cleaning result not found. Please run data cleaning first."))
            /\ UNCHANGED export
       ELSE /\ export' = [export EXCEPT ![e] =
                            [pc |-> "dataset", input |-> input,
                             cleaningResult |-> cleaningResult]]
            /\ UNCHANGED reply
  /\ UNCHANGED <<pureVars, chartVars, storeVars, generate, clean, history>>

\* exportAsDataset: the original dataset is selected
ExportGetDataset(e) ==
  /\ export[e].pc = "dataset"
  /\ LET x == export[e]
         originalDataset == getCsvDataset(x.input.datasetId)
     IN IF originalDataset = Null
        THEN /\ reply' = Reply("cleaning.exportAsDataset", x.input,
                               TRPCError("NOT_FOUND", "Original dataset not found."))
             /\ export' = [export EXCEPT ![e] = Idle]
        ELSE /\ export' = [export EXCEPT ![e] =
                             [pc |-> "create", input |-> x.input,
                              cleaningResult |-> x.cleaningResult,
                              originalDataset |-> originalDataset]]
             /\ UNCHANGED reply
  /\ UNCHANGED <<pureVars, chartVars, storeVars, generate, clean, history>>

\* exportAsDataset: the cleaned CSV is parsed and stored as a new dataset
\* owned by ctx.user.id
ExportCreate(e) ==
  /\ export[e].pc = "create"
  /\ autoIncrement.csvDatasets <= MaxDatasets
  /\ LET x == export[e]
         parsed == parseCSV(x.cleaningResult.cleanedCsv)
         rowCount == Len(parsed.rows)
         newFileName == NewFileName(x.input, x.originalDataset)
         row == createCsvDataset(x.input.user, newFileName,
                                 x.cleaningResult.cleanedCsv, parsed.headers,
                                 rowCount)
     IN /\ csvDatasets' = csvDatasets \cup {row}
        /\ reply' = Reply("cleaning.exportAsDataset", x.input,
                          [success |-> TRUE, fileName |-> newFileName,
                           rowCount |-> rowCount,
                           message |-> <<"Cleaned dataset \"", newFileName,
                                         "\" has been saved.">>])
  /\ autoIncrement' = [autoIncrement EXCEPT !.csvDatasets = @ + 1]
  /\ export' = [export EXCEPT ![e] = Idle]
  /\ UNCHANGED <<pureVars, chartVars, otherTables, dataInsights, dataCleaningResults, now, generate, clean,
                 history>>

\* the store is empty and no request is in flight
InitData ==
  /\ NoPureInput
  /\ StoreEmpty
  /\ NoCharts
  /\ generate = <<>>
  /\ clean = [c \in CleanRequests |-> Idle]
  /\ export = [e \in ExportRequests |-> Idle]
  /\ reply = NoReply
  /\ history = <<>>

\* two users upload, read and delete datasets; a dataset is cleaned and the
\* result exported
NextDatasets ==
  \/ \E u \in Users :
       \/ Upload(u, handleUpload(<<"f">>, PlainText))
       \/ List(u)
       \/ \E datasetId \in DatasetIds : Get(u, datasetId) \/ Delete(u, datasetId)
  \/ \E datasetId \in DatasetIds : CleanStart("c1", datasetId, PlainText)
  \/ \E response \in {NotJson, AllFields} : CleanLlmSettles("c1", response)
  \/ \E e \in ExportRequests :
       \/ \E input \in ExportInputs : ExportGetLatest(e, input)
       \/ ExportGetDataset(e)
       \/ ExportCreate(e)

SpecDatasets == InitData /\ [][NextDatasets]_vars

\* cleans of the datasets run side by side while datasets are uploaded and
\* deleted
NextCleaning ==
  \/ Upload(1, handleUpload(<<"f">>, QuotedText))
  \/ \E datasetId \in DatasetIds : Delete(1, datasetId)
  \/ \E c \in CleanRequests, datasetId \in DatasetIds :
       CleanStart(c, datasetId, QuotedText)
  \/ \E c \in CleanRequests, response \in {NotJson, NoFields, RenamedHeader} :
       CleanLlmSettles(c, response)

SpecCleaning == InitData /\ [][NextCleaning]_vars

\* cleans of the datasets run side by side as the clock advances, and the
\* latest result is read
NextLatest ==
  \/ \E c \in CleanRequests, datasetId \in DatasetIds :
       CleanStart(c, datasetId, QuotedText)
  \/ \E c \in CleanRequests, response \in {NotJson, NoFields, RenamedHeader} :
       CleanLlmSettles(c, response)
  \/ \E datasetId \in DatasetIds : GetResult(datasetId)
  \/ Tick

SpecLatest == InitData /\ [][NextLatest]_vars

\* one clean of dataset 1 at a time, with every answer the LLM call can give
NextClean ==
  \/ CleanStart("c1", 1, QuotedText)
  \/ \E response \in CleanResponses : CleanLlmSettles("c1", response)

SpecClean == InitData /\ [][NextClean]_vars

\* the export requests of user 1 for dataset 1: without a name, with "" and
\* with "g"
ExportsOfFirst ==
  {[user |-> 1, datasetId |-> 1]}
  \cup {[user |-> 1, datasetId |-> 1, newFileName |-> n] : n \in NewFileNames}

\* a user uploads and deletes datasets, cleans the first one and exports the
\* result
NextExport ==
  \/ Upload(1, handleUpload(SpecialName, PlainText))
  \/ \E datasetId \in DatasetIds : Delete(1, datasetId)
  \/ CleanStart("c1", 1, PlainText)
  \/ \E response \in {RenamedHeader, SpacedHeaders} : CleanLlmSettles("c1", response)
  \/ \E e \in ExportRequests :
       \/ \E input \in ExportsOfFirst : ExportGetLatest(e, input)
       \/ ExportGetDataset(e)
       \/ ExportCreate(e)

SpecExport == InitData /\ [][NextExport]_vars

(***************************************************************************)
(* clean answered with tables whose cells hold commas or nothing, and the  *)
(* export of the result                                                    *)
(***************************************************************************)
\* an object whose only header is "a,b"
CommaHeader ==
  [kind |-> "object",
   fields |-> [cleanedHeaders |-> <<<<"a", Comma, "b">>>>,
               cleanedRows |-> << <<<<"1">>>> >>,
               changes |-> <<>>,
               summary |-> [totalChanges |-> 0, qualityScore |-> 100]]]
\* an object whose last row is one empty cell
BlankLastRow ==
  [kind |-> "object",
   fields |-> [cleanedHeaders |-> <<<<"a">>>>,
               cleanedRows |-> << <<<<"1">>>>, <<<<>>>> >>,
               changes |-> <<>>,
               summary |-> [totalChanges |-> 0, qualityScore |-> 100]]]

NextRoundTrip ==
  \/ Upload(1, handleUpload(<<"f">>, PlainText))
  \/ CleanStart("c1", 1, PlainText)
  \/ \E response \in {SpacedHeaders, RenamedHeader, CommaHeader, BlankLastRow} :
       CleanLlmSettles("c1", response)
  \/ ExportGetLatest("e1", [user |-> 1, datasetId |-> 1])
  \/ ExportGetDataset("e1")
  \/ ExportCreate("e1")

SpecRoundTrip == InitData /\ [][NextRoundTrip]_vars

(***************************************************************************)
(* uploads of picked files of several shapes, and exports                  *)
(***************************************************************************)
\* the files "a\n", "a\n\n1\n", " a , b\r\n1, 2\r\n", the empty file and
\* PlainText
HeaderOnly == <<"a", NewLine>>
BlankRow == <<"a", NewLine, NewLine, "1", NewLine>>
SpacedCells ==
  <<" ", "a", " ", Comma, " ", "b", "\r", NewLine, "1", Comma, " ", "2", "\r", NewLine>>
PickedTexts == {PlainText, HeaderOnly, BlankRow, SpacedCells, <<>>}

NextPicked ==
  \/ \E text \in PickedTexts : Upload(1, handleUpload(<<"f">>, text))
  \/ CleanStart("c1", 1, PlainText)
  \/ \E response \in {CommaHeader, BlankLastRow} : CleanLlmSettles("c1", response)
  \/ ExportGetLatest("e1", [user |-> 1, datasetId |-> 1])
  \/ ExportGetDataset("e1")
  \/ ExportCreate("e1")

SpecPicked == InitData /\ [][NextPicked]_vars

(***************************************************************************)
(* parseCSV applied to picked files                                        *)
(***************************************************************************)
MaxDataLines == 2

\* the lines of a file: "a", " a ,b", "," and "1\r"
LineTexts == {<<"a">>, <<" ", "a", " ", ",", "b">>, <<",">>, <<"1", "\r">>}

\* what follows the last line: nothing, a line break, or a line break and a
\* blank line
Endings == {<<>>, <<NewLine>>, <<NewLine, " ", NewLine>>}

\* a file of a header line and up to MaxDataLines data lines
Files ==
  [header : LineTexts, lines : SeqsUpTo(LineTexts, MaxDataLines), ending : Endings]

\* the text of a file
FileText(file) == Join(<<file.header>> \o file.lines, <<NewLine>>) \o file.ending

\* the client reads a picked file and parses its text
ParseFile(file) ==
  /\ reply' = Reply("parseCSV", file, parseCSV(FileText(file)))
  /\ UNCHANGED <<pureVars, chartVars, storeVars, generate, clean, export, history>>

NextParse == \E file \in Files : ParseFile(file)

SpecParse == InitData /\ [][NextParse]_vars

(***************************************************************************)
(* The quote-aware parser of clean applied to lines                        *)
(***************************************************************************)
MaxLineLength == 4

\* the lines of up to MaxLineLength characters out of a, comma, quote, blank
QuotedLines == SeqsUpTo({"a", Comma, Quote, " "}, MaxLineLength)

\* clean parses a data line of its csvContent
ParseQuoted(line) ==
  /\ reply' = Reply("parseLine", [line |-> line], ParseLine(line))
  /\ UNCHANGED <<pureVars, chartVars, storeVars, generate, clean, export, history>>

NextQuoted == \E line \in QuotedLines : ParseQuoted(line)

SpecQuoted == InitData /\ [][NextQuoted]_vars

(***************************************************************************)
(* db.ts, called with and without a database.  getDb() resolves to the     *)
(* drizzle instance, or to null when DATABASE_URL is not set or drizzle()  *)
(* threw.  Of a chart configuration the colour columns other than palette  *)
(* are left out, of a user the columns email and loginMethod, which are    *)
(* handled as name is.                                                     *)
(***************************************************************************)
MaxChartConfigs == 1

\* what getDb() resolves to
getDb == {"drizzle", "null"}

\* a call of db.ts returns a value or throws an Error
Returned(value) == [returned |-> value]
Thrown(message) == [thrown |-> message]

\* if (!db) throw new Error("Database not available")
NotAvailable == Thrown("Database not available")

\* a text value of a nullable column
Text(value) == [k |-> "text", v |-> value]

\* ENV.ownerId
OwnerId == "owner"

\* the InsertUser values upsertUser is called with: no openId, the openId
\* of a user, and the owner's openId with a name
UpsertInputs ==
  {[openId |-> ""], [openId |-> "u"], [openId |-> OwnerId, name |-> Text("n")]}

\* db.createChartConfig(datasetId, chartType, labelColumn, datasets, ...,
\* palette, ...): the row inserted
createChartConfig(datasetId, chartType, labelColumn, datasets, palette) ==
  [id |-> autoIncrement.chartConfigs,
   datasetId |-> datasetId,
   chartType |-> chartType,
   labelColumn |-> labelColumn,
   datasets |-> datasets,
   palette |-> palette]

\* db.getChartConfig(configId): where id = configId, limit 1
getChartConfig(configId) ==
  IF \E x \in chartConfigs : x.id = configId
  THEN CHOOSE x \in chartConfigs : x.id = configId
  ELSE Null

\* db.getDatasetChartConfigs(datasetId)
getDatasetChartConfigs(datasetId) == {x \in chartConfigs : x.datasetId = datasetId}

\* db.updateChartConfig(configId, updates): the table after the update
updateChartConfig(configId, updates) ==
  {IF x.id = configId
   THEN [f \in DOMAIN x |-> IF f \in DOMAIN updates THEN updates[f] ELSE x[f]]
   ELSE x : x \in chartConfigs}

\* db.getDatasetInsights(datasetId)
getDatasetInsights(datasetId) == {x \in dataInsights : x.datasetId = datasetId}

\* db.getUser(openId) with a database: where openId = openId, limit 1
getUser(openId) ==
  IF \E x \in users : x.openId = openId
  THEN CHOOSE x \in users : x.openId = openId
  ELSE Undefined

\* db.upsertUser(user) with a database: the table after insert ... on
\* duplicate key update
upsertUser(user) ==
  LET role == IF "role" \in DOMAIN user THEN user.role
              ELSE IF user.openId = OwnerId THEN "admin"
              ELSE "user"
      roleSet == "role" \in DOMAIN user \/ user.openId = OwnerId
      updated(x) ==
        [id |-> x.id,
         openId |-> x.openId,
         name |-> IF "name" \in DOMAIN user THEN user.name ELSE x.name,
         role |-> IF roleSet THEN role ELSE x.role,
         lastSignedIn |-> IF "name" \in DOMAIN user \/ roleSet
                          THEN x.lastSignedIn ELSE now]
  IN IF \E x \in users : x.openId = user.openId
     THEN {IF x.openId = user.openId THEN updated(x) ELSE x : x \in users}
     ELSE users \cup {[id |-> autoIncrement.users,
                       openId |-> user.openId,
                       name |-> IF "name" \in DOMAIN user THEN user.name ELSE Null,
                       role |-> role,
                       lastSignedIn |-> now]}

\* the call of a function of db.ts that selects: it returns what it selected
\* or, without a database, throws
Select(db, op, input, selected) ==
  /\ reply' = Reply(op, [db |-> db] @@ input,
                    IF db = "null" THEN NotAvailable ELSE Returned(selected))
  /\ UNCHANGED <<pureVars, chartVars, storeVars, generate, clean, export, history>>

DbGetUser(db, openId) ==
  /\ reply' = Reply("getUser", [db |-> db, openId |-> openId],
                    IF db = "null" THEN Returned(Undefined)
                    ELSE Returned(getUser(openId)))
  /\ UNCHANGED <<pureVars, chartVars, storeVars, generate, clean, export, history>>

DbGetCsvDataset(db, datasetId) ==
  Select(db, "getCsvDataset", [datasetId |-> datasetId], getCsvDataset(datasetId))

DbGetUserCsvDatasets(db, userId) ==
  Select(db, "getUserCsvDatasets", [userId |-> userId], getUserCsvDatasets(userId))

DbGetChartConfig(db, configId) ==
  Select(db, "getChartConfig", [configId |-> configId], getChartConfig(configId))

DbGetDatasetChartConfigs(db, datasetId) ==
  Select(db, "getDatasetChartConfigs", [datasetId |-> datasetId],
         getDatasetChartConfigs(datasetId))

DbGetDatasetInsights(db, datasetId) ==
  Select(db, "getDatasetInsights", [datasetId |-> datasetId],
         getDatasetInsights(datasetId))

DbGetLatestCleaningResult(db, datasetId) ==
  \E result \in getLatestCleaningResult(datasetId) :
    Select(db, "getLatestCleaningResult", [datasetId |-> datasetId], result)

\* the call of a function of db.ts that writes table: without a database it
\* throws and the table stays, with one the table becomes after and the next
\* id of the table moves on by inserted
Write(db, op, input, table, after, inserted) ==
  /\ IF db = "null"
     THEN /\ reply' = Reply(op, [db |-> db] @@ input, NotAvailable)
          /\ UNCHANGED <<csvDatasets, dataInsights, dataCleaningResults,
                         chartConfigs, users, autoIncrement>>
     ELSE /\ reply' = Reply(op, [db |-> db] @@ input, Returned([rows |-> inserted]))
          /\ csvDatasets' = IF table = "csvDatasets" THEN after ELSE csvDatasets
          /\ dataInsights' = IF table = "dataInsights" THEN after ELSE dataInsights
          /\ dataCleaningResults' =
               IF table = "dataCleaningResults" THEN after ELSE dataCleaningResults
          /\ chartConfigs' = IF table = "chartConfigs" THEN after ELSE chartConfigs
          /\ users' = IF table = "users" THEN after ELSE users
          /\ autoIncrement' = [autoIncrement EXCEPT ![table] = @ + inserted]
  /\ UNCHANGED <<pureVars, chartVars, now, generate, clean, export, history>>

DbCreateCsvDataset(db, input) ==
  /\ autoIncrement.csvDatasets <= MaxDatasets
  /\ Write(db, "createCsvDataset", input, "csvDatasets",
           csvDatasets \cup {createCsvDataset(input.userId, input.fileName,
                                              input.rawCsv, input.headers,
                                              input.rowCount)}, 1)

DbDeleteCsvDataset(db, datasetId) ==
  Write(db, "deleteCsvDataset", [datasetId |-> datasetId], "csvDatasets",
        deleteCsvDataset(datasetId), 0)

DbCreateDataInsight(db, input) ==
  /\ autoIncrement.dataInsights <= MaxBatch
  /\ Write(db, "createDataInsight", input, "dataInsights",
           dataInsights \cup {createDataInsight(input.datasetId, input.insightType,
                                                input.title, input.content,
                                                input.confidence)}, 1)

DbDeleteDatasetInsights(db, datasetId) ==
  Write(db, "deleteDatasetInsights", [datasetId |-> datasetId], "dataInsights",
        deleteDatasetInsights(datasetId), 0)

DbCreateCleaningResult(db, input) ==
  /\ autoIncrement.dataCleaningResults <= MaxCleaningResults
  /\ Write(db, "createCleaningResult", input, "dataCleaningResults",
           createCleaningResult(input.datasetId, input.originalCsv,
                                input.cleanedCsv, input.cleaningReport), 1)

DbCreateChartConfig(db, input) ==
  /\ autoIncrement.chartConfigs <= MaxChartConfigs
  /\ Write(db, "createChartConfig", input, "chartConfigs",
           chartConfigs \cup {createChartConfig(input.datasetId, input.chartType,
                                                input.labelColumn, input.datasets,
                                                input.palette)}, 1)

DbUpdateChartConfig(db, configId, updates) ==
  Write(db, "updateChartConfig", [configId |-> configId, updates |-> updates],
        "chartConfigs", updateChartConfig(configId, updates), 0)

\* db.upsertUser(user): without an openId it throws, without a database it
\* warns and returns, and otherwise it writes the user
DbUpsertUser(db, user) ==
  IF user.openId = ""
  THEN /\ reply' = Reply("upsertUser", [db |-> db, user |-> user],
                         Thrown("User openId is required for upsert"))
       /\ UNCHANGED <<pureVars, chartVars, storeVars, generate, clean, export, history>>
  ELSE IF db = "null"
  THEN /\ reply' = Reply("upsertUser", [db |-> db, user |-> user],
                         Returned(Undefined))
       /\ UNCHANGED <<pureVars, chartVars, storeVars, generate, clean, export, history>>
  ELSE /\ reply' = Reply("upsertUser", [db |-> db, user |-> user],
                         Returned(Undefined))
       /\ users' = upsertUser(user)
       /\ autoIncrement' =
            [autoIncrement EXCEPT
               !.users = IF \E x \in users : x.openId = user.openId THEN @ ELSE @ + 1]
       /\ UNCHANGED <<pureVars, chartVars, csvDatasets, dataInsights, dataCleaningResults,
                      chartConfigs, now, generate, clean, export, history>>

\* the functions of db.ts are called on the first dataset, with and without
\* a database
NextDb ==
  \E db \in getDb :
    \/ \E user \in UpsertInputs : DbUpsertUser(db, user)
    \/ \E openId \in {"u", OwnerId} : DbGetUser(db, openId)
    \/ DbCreateCsvDataset(db, [userId |-> 1, fileName |-> <<"f">>,
                               rawCsv |-> <<"a">>, headers |-> <<<<"a">>>>,
                               rowCount |-> 0])
    \/ DbGetCsvDataset(db, 1)
    \/ DbGetUserCsvDatasets(db, 1)
    \/ DbDeleteCsvDataset(db, 1)
    \/ DbCreateChartConfig(db, [datasetId |-> 1, chartType |-> "bar",
                                labelColumn |-> 0, datasets |-> <<1>>,
                                palette |-> "vibrant"])
    \/ DbGetChartConfig(db, 1)
    \/ DbGetDatasetChartConfigs(db, 1)
    \/ DbUpdateChartConfig(db, 1, [chartType |-> "line"])
    \/ DbCreateDataInsight(db, [datasetId |-> 1] @@ InsightList[1]
                                @@ [insightType |-> InsightList[1].category])
    \/ DbGetDatasetInsights(db, 1)
    \/ DbDeleteDatasetInsights(db, 1)
    \/ DbCreateCleaningResult(db, [datasetId |-> 1, originalCsv |-> <<"a">>,
                                   cleanedCsv |-> <<"a">>,
                                   cleaningReport |-> [changes |-> <<>>]])
    \/ DbGetLatestCleaningResult(db, 1)

SpecDb == InitData /\ [][NextDb]_vars

(***************************************************************************)
(* The routers together: upload, delete, generate, clean, chart.create and *)
(* export on the first dataset                                             *)
(***************************************************************************)
\* chart.create
ChartCreate(input) ==
  /\ autoIncrement.chartConfigs <= MaxChartConfigs
  /\ chartConfigs' =
       chartConfigs \cup {createChartConfig(input.datasetId, input.chartType,
                                            input.labelColumn, input.datasets,
                                            input.palette)}
  /\ autoIncrement' = [autoIncrement EXCEPT !.chartConfigs = @ + 1]
  /\ reply' = Reply("chart.create", input, [insertId |-> autoIncrement.chartConfigs])
  /\ UNCHANGED <<pureVars, chartVars, csvDatasets, dataInsights, dataCleaningResults, users,
                 now, generate, clean, export, history>>

InitRouters ==
  /\ NoPureInput
  /\ StoreEmpty
  /\ NoCharts
  /\ generate = [r \in GenerateRequests |-> Idle]
  /\ clean = [c \in CleanRequests |-> Idle]
  /\ export = [e \in ExportRequests |-> Idle]
  /\ reply = NoReply
  /\ history = [r \in GenerateRequests |-> NoHistory]

NextRouters ==
  \/ Upload(1, handleUpload(<<"f">>, PlainText))
  \/ Delete(1, 1)
  \/ GenerateDelete("g1", 1)
  \/ \E response \in {[kind |-> "throw"],
                       [kind |-> "object",
                        fields |-> [insights |-> SubSeq(InsightList, 1, 1)]]} :
       GenerateLlmSettles("g1", response)
  \/ GenerateInsert("g1")
  \/ GenerateInsertThrows("g1")
  \/ CleanStart("c1", 1, PlainText)
  \/ \E response \in {NotJson, AllFields} : CleanLlmSettles("c1", response)
  \/ ChartCreate([datasetId |-> 1, chartType |-> "bar", labelColumn |-> 0,
                  datasets |-> <<1>>, palette |-> "vibrant"])
  \/ ExportGetLatest("e1", [user |-> 1, datasetId |-> 1])
  \/ ExportGetDataset("e1")
  \/ ExportCreate("e1")

SpecRouters == InitRouters /\ [][NextRouters]_vars

(***************************************************************************)
(* generate and clean on two datasets, with uploads and a chart.create on   *)
(* the first                                                               *)
(***************************************************************************)
NextPerDataset ==
  \/ Upload(1, handleUpload(<<"f">>, PlainText))
  \/ \E d \in DatasetIds :
       \/ GenerateDelete("g1", d)
       \/ CleanStart("c1", d, PlainText)
  \/ ChartCreate([datasetId |-> 1, chartType |-> "bar", labelColumn |-> 0,
                  datasets |-> <<1>>, palette |-> "vibrant"])
  \/ \E response \in {[kind |-> "throw"],
                       [kind |-> "object",
                        fields |-> [insights |-> SubSeq(InsightList, 1, 1)]]} :
       GenerateLlmSettles("g1", response)
  \/ GenerateInsert("g1")
  \/ GenerateInsertThrows("g1")
  \/ \E response \in {NotJson, AllFields} : CleanLlmSettles("c1", response)

SpecPerDataset == InitRouters /\ [][NextPerDataset]_vars

(***************************************************************************)
(* DataCharts and ChartCustomizer of the client                            *)
(*                                                                         *)
(* A chart is its type and its title; the numbers it draws, its axis       *)
(* labels and its options are left out, and so are the axis labels of a    *)
(* configuration.  The dialog of ChartCustomizer edits a copy of the       *)
(* configuration of its chart; Apply Changes hands the copy to DataCharts. *)
(* Of the fields of the copy the dialog edits, the type is followed.       *)
(***************************************************************************)
\* one element of columnTypes: the column of header index idx
ColumnType(data, idx) ==
  LET vals == PresentValues(data.rows, idx)
      numericValues == NumericValues(vals)
      isNumeric == GreaterThanTimes07(Len(numericValues), Len(vals))
  IN [index |-> idx,
      name |-> data.headers[idx + 1],
      type |-> IF isNumeric THEN "numeric" ELSE "categorical",
      values |-> IF isNumeric THEN numericValues ELSE vals]

\* v.toString().substring(0, 30)
Substring30(v) == IF Len(v) > 30 THEN SubSeq(v, 1, 30) ELSE v

\* the useMemo of baseChartData: the charts of the data and the insights, in
\* the order they are pushed; none without data or without rows
Charts(p) ==
  IF p.data = Null \/ Len(p.data.rows) = 0 THEN <<>>
  ELSE
    LET data == p.data
        columnTypes == [c \in 1..Len(data.headers) |-> ColumnType(data, c - 1)]
        IsNumeric(c) == c.type = "numeric"
        IsCategorical(c) == c.type = "categorical"
        numericColumns == SelectSeq(columnTypes, IsNumeric)
        categoricalColumns == SelectSeq(columnTypes, IsCategorical)
        IsPoint(r) ==
          /\ Cell(r, numericColumns[1].index) # Undefined
          /\ Cell(r, numericColumns[2].index) # Undefined
          /\ ~IsNaN(ParseFloat(Cell(r, numericColumns[1].index)))
          /\ ~IsNaN(ParseFloat(Cell(r, numericColumns[2].index)))
        points == SelectSeq(data.rows, IsPoint)
        entries == {Substring30(v) : v \in Range(categoricalColumns[1].values)}
        IsQuality(i) == i.insightType = "quality"
        bar == IF Len(numericColumns) > 0
               THEN <<[type |-> "bar",
                       title |-> <<"Distribution of ", numericColumns[1].name>>]>>
               ELSE <<>>
        line == IF Len(numericColumns) >= 2 /\ Len(points) > 5
                THEN <<[type |-> "line",
                        title |-> <<numericColumns[2].name, " vs ",
                                    numericColumns[1].name>>]>>
                ELSE <<>>
        pie == IF Len(categoricalColumns) > 0 /\ Cardinality(entries) > 1
               THEN <<[type |-> "pie",
                       title |-> <<"Distribution of ", categoricalColumns[1].name>>]>>
               ELSE <<>>
        doughnut == IF SelectSeq(p.insights, IsQuality) # <<>>
                    THEN <<[type |-> "doughnut", title |-> <<"Data Quality Score">>]>>
                    ELSE <<>>
        multiBar == IF Len(numericColumns) >= 2
                    THEN <<[type |-> "multiBar",
                            title |-> <<"Numeric Columns Comparison">>]>>
                    ELSE <<>>
    IN bar \o line \o pie \o doughnut \o multiBar

\* baseChartData.charts[idx]
BaseChart(idx) == baseChartData[idx + 1]

\* the chart indexes DataCharts renders
Displayed == {idx \in 0..4 : idx < Len(baseChartData)}

\* getChartConfig(index, baseChart) of DataCharts
getCustomConfig(index, baseChart) ==
  IF index \in DOMAIN customConfigs
  THEN customConfigs[index]
  ELSE [type |-> baseChart.type,
        title |-> baseChart.title,
        colorPalette |-> "default",
        showLegend |-> baseChart.type \in {"pie", "doughnut", "multiBar"},
        showGrid |-> baseChart.type \in {"bar", "line", "multiBar"}]

\* availableTypes of the chart rendered from baseChart
availableTypes(baseChart) ==
  IF baseChart.type \in {"pie", "doughnut"} THEN {"pie", "doughnut"}
  ELSE IF baseChart.type = "multiBar" THEN {"bar", "line", "multiBar"}
  ELSE {"bar", "line"}

\* handleConfigChange(index, config): the state chartConfigs after it
handleConfigChange(index, config) ==
  [i \in DOMAIN customConfigs \cup {index} |->
     IF i = index THEN config ELSE customConfigs[i]]

\* the tables DataCharts is given: one numeric column, one categorical
\* column, and two numeric columns of two rows and of six rows
NumericData == [headers |-> <<<<"n">>>>, rows |-> <<<<<<"1">>>>, <<<<"2">>>>>>]
CategoricalData == [headers |-> <<<<"c">>>>, rows |-> <<<<<<"x">>>>, <<<<"y">>>>>>]
TwoNumericData ==
  [headers |-> <<<<"n">>, <<"m">>>>,
   rows |-> <<<<<<"1">>, <<"2">>>>, <<<<"3">>, <<"4">>>>>>]
SixRowsData ==
  [headers |-> <<<<"n">>, <<"m">>>>,
   rows |-> [i \in 1..6 |-> <<<<"1">>, <<"2">>>>]]
ChartDatas == {NumericData, CategoricalData, TwoNumericData, SixRowsData}

\* the insights of the selected dataset: none, or one of type quality
ChartInsights == {<<>>, <<[insightType |-> "quality", confidence |-> 90]>>}

\* the parent renders DataCharts with other data or other insights, and the
\* charts are computed again
DataChange(data, insightList) ==
  /\ props' = [data |-> data, insights |-> insightList]
  /\ props' # props
  /\ baseChartData' = Charts(props')
  /\ UNCHANGED <<pureVars, customConfigs, storeVars, requestVars, history>>

\* the dialog of chart idx is opened, a type of the Select is picked or the
\* type is left as it is, and Apply Changes is pressed: handleSave
ApplyChanges(idx, type) ==
  /\ idx \in Displayed
  /\ LET initialConfig == getCustomConfig(idx, BaseChart(idx))
         config == [initialConfig EXCEPT !.type = type]
     IN /\ type \in availableTypes(BaseChart(idx)) \cup {initialConfig.type}
        /\ customConfigs' = handleConfigChange(idx, config)
  /\ UNCHANGED <<pureVars, props, baseChartData, storeVars, requestVars, history>>

NextCharts ==
  \/ \E data \in ChartDatas, insightList \in ChartInsights :
       DataChange(data, insightList)
  \/ \E idx \in 0..4, type \in {"bar", "line", "pie", "doughnut", "multiBar"} :
       ApplyChanges(idx, type)

SpecCharts == InitData /\ [][NextCharts]_vars

(***************************************************************************)
(* Properties of the helpers                                               *)
(***************************************************************************)
\* counted from the table itself, not from the descriptor: the rows that hold
\* a non-blank cell at position colIdx, and those of them that parse
PresentRows(table, colIdx) ==
  {i \in DOMAIN table :
     colIdx + 1 <= Len(table[i]) /\ Trim(table[i][colIdx + 1]) # <<>>}

NumericRows(table, colIdx) ==
  {i \in PresentRows(table, colIdx) : ~IsNaN(ParseFloat(table[i][colIdx + 1]))}

\* C6: a column is numeric if and only if numericCount > 0.7 * presentCount,
\* taken exactly: at exactly 70% the column is categorical, above it numeric,
\* and a column with no present value is categorical.
C6_ThresholdExact ==
  analysis # NoValue =>
    \A c \in DOMAIN analysis.columns :
      LET present == Cardinality(PresentRows(rows, c - 1))
          numeric == Cardinality(NumericRows(rows, c - 1))
      IN analysis.columns[c].type = "numeric" <=> 10 * numeric > 7 * present

\* C7: for every header index and every table, ragged rows included, the
\* descriptor is produced and missingCount + presentCount = totalRows and
\* numericCount <= presentCount, a position missing from a row being absent.
C7_CountsAddUp ==
  analysis # NoValue =>
    /\ analysis.totalRows = Len(rows)
    /\ DOMAIN analysis.columns = 1..Len(headers)
    /\ \A c \in DOMAIN analysis.columns :
         LET presentValues == PresentValues(rows, c - 1)
         IN /\ Len(presentValues) = Cardinality(PresentRows(rows, c - 1))
            /\ analysis.columns[c].missingCount + Len(presentValues)
                 = analysis.totalRows
            /\ analysis.columns[c].missingCount
                 = Cardinality(DOMAIN rows \ PresentRows(rows, c - 1))
            /\ Len(NumericValues(presentValues)) <= Len(presentValues)
            /\ Len(NumericValues(presentValues))
                 = Cardinality(NumericRows(rows, c - 1))

\* a table with a row shorter and a row longer than the header list has been
\* analysed, and a column of it has both a missing and a numeric value
C7_Witness ==
  /\ analysis # NoValue
  /\ \E i, j \in DOMAIN rows :
       Len(rows[i]) < Len(headers) /\ Len(rows[j]) > Len(headers)
  /\ \E c \in DOMAIN analysis.columns :
       /\ analysis.columns[c].missingCount > 0
       /\ NumericRows(rows, c - 1) # {}

StoredFor(table, d) == {x \in table : x.datasetId = d}

\* the rows of a set in the order of their ids, as the elements they store
RECURSIVE AsElements(_)
AsElements(S) ==
  IF S = {} THEN <<>>
  ELSE LET x == CHOOSE y \in S : \A z \in S : y.id <= z.id
       IN <<[category |-> x.insightType, title |-> x.title,
             content |-> x.content, confidence |-> x.confidence]>>
          \o AsElements(S \ {x})

\* the step with which request r returns success
Succeeds(r) ==
  /\ generate[r].pc # "idle"
  /\ generate'[r].pc = "idle"
  /\ reply'.result.success

\* the insights array of the response that request r, now returning success,
\* was given
Answered(r) == IF generate[r].pc = "insert" THEN generate[r].insights ELSE <<>>

\* what C1 says of the store when r returns success
Replaced(r) ==
  LET stored == StoredFor(dataInsights', generate[r].datasetId)
  IN /\ AsElements(stored) = Answered(r)
     /\ \A x \in stored : x.id >= history[r].firstNew
     /\ reply'.result.count = Cardinality(stored)

\* C1 as stated: after a generate request for d succeeds, the rows stored for
\* d are exactly one row per element of the response's insights array, every
\* row that existed for d before the request is gone, and the returned count
\* is the number of rows now stored for d.
C1_GenerateReplaces ==
  [][\A r \in GenerateRequests : Succeeds(r) => Replaced(r)]_vars

\* C1 as amended: the same, for a request beside which no statement of
\* another generate request on d ran between its delete and its return.
C1_GenerateReplacesAlone ==
  [][\A r \in GenerateRequests :
       Succeeds(r) /\ ~history'[r].overlapped => Replaced(r)]_vars

\* a request that ran alone has returned the count of a full batch, which is
\* all that is stored, and the rows it found have been deleted
C1_Witness ==
  /\ reply = GenerateReply([success |-> TRUE, count |-> MaxBatch])
  /\ \E r \in GenerateRequests :
       /\ history[r].outcome = "success"
       /\ ~history[r].overlapped
       /\ history[r].firstNew > 1
       /\ history[r].inserted = dataInsights
       /\ Cardinality(dataInsights) = MaxBatch
  /\ \A r \in GenerateRequests : generate[r].pc = "idle"

\* both requests have returned success for dataset d and neither has been
\* followed by another request of its caller
BothSucceeded(d) ==
  \A r \in GenerateRequests :
    /\ generate[r].pc = "idle"
    /\ history[r].outcome = "success"
    /\ history[r].datasetId = d

\* C2 as stated: when two generate requests for the same dataset have both
\* completed successfully, the rows stored for it are exactly the batch of one
\* of the two, whatever the interleaving of their statements.
C2_LastWriterWins ==
  \A d \in DatasetIds :
    BothSucceeded(d) =>
      \E r \in GenerateRequests : StoredFor(dataInsights, d) = history[r].inserted

\* the id counter at the later of the two delete statements
LaterDelete ==
  LET ids == {history[r].firstNew : r \in GenerateRequests}
  IN CHOOSE n \in ids : \A m \in ids : m <= n

\* C2 as amended: the rows stored are exactly those that either request
\* inserted after the later of the two delete statements: the whole batch of
\* the request that deleted last and, of the other's batch, the rows inserted
\* after that delete.
C2_RowsAfterLaterDelete ==
  \A d \in DatasetIds :
    BothSucceeded(d) =>
      /\ StoredFor(dataInsights, d) =
           {x \in UNION {history[r].inserted : r \in GenerateRequests} :
              x.id >= LaterDelete}
      /\ \E r \in GenerateRequests :
           /\ history[r].firstNew = LaterDelete
           /\ history[r].inserted \subseteq dataInsights

\* two requests on one dataset ran beside each other, both returned success,
\* and rows of both are stored
C2_Witness ==
  \E d \in DatasetIds :
    /\ BothSucceeded(d)
    /\ \A r \in GenerateRequests :
         history[r].overlapped /\ history[r].inserted \cap dataInsights # {}

\* the responses that are not JSON, or are JSON without the insights array
Malformed ==
  {[kind |-> "notJson"], [kind |-> "null"], [kind |-> "object", fields |-> <<>>]}

\* C3: if the LLM response cannot be parsed as JSON or lacks the insights
\* array, the request ends in the 'Failed to generate insights' error and
\* writes no insight row.
C3_MalformedResponseFails ==
  [][\A r \in GenerateRequests : \A response \in Malformed :
       GenerateLlmSettles(r, response) =>
         /\ reply' = GenerateReply(GenerateFailed)
         /\ dataInsights' = dataInsights]_vars

(***************************************************************************)
(* Properties of the csv and cleaning procedures                           *)
(***************************************************************************)
\* the rows of a table that a step removes
Removed(before, after) == before \ after

\* C4: a csv.get never returns a dataset owned by another user than its
\* caller, and a csv.delete never removes one.
C4_GetDeleteScoped ==
  [][/\ (reply'.op = "csv.get" /\ "userId" \in DOMAIN reply'.result)
          => reply'.result.userId = reply'.input.user
     /\ \A x \in Removed(csvDatasets, csvDatasets') :
          reply'.op = "csv.delete" /\ x.userId = reply'.input.user]_vars

\* the step in which export request e stores its new dataset
Exports(e) == export[e].pc = "create" /\ export'[e].pc = "idle"

\* C5: the dataset exportAsDataset creates is owned by the owner of the
\* original dataset, whoever makes the request.
C5_ExportKeepsOwner ==
  [][\A e \in ExportRequests :
       Exports(e) =>
         \A n \in csvDatasets' \ csvDatasets :
           n.userId = export[e].originalDataset.userId]_vars

\* the step in which clean request c returns its result
CleanSucceeds(c) ==
  /\ clean[c].pc = "llm"
  /\ clean'[c].pc = "idle"
  /\ "success" \in DOMAIN reply'.result

\* C9: no step removes or changes a stored cleaning result, and a clean of
\* dataset d that succeeds adds exactly one row, for d, and nothing else adds
\* one.
C9_ResultsOnlyGrow ==
  [][/\ dataCleaningResults \subseteq dataCleaningResults'
     /\ \A x \in dataCleaningResults' \ dataCleaningResults :
          \A y \in dataCleaningResults : y.id # x.id
     /\ \A c \in CleanRequests :
          CleanSucceeds(c) =>
            /\ Cardinality(dataCleaningResults' \ dataCleaningResults) = 1
            /\ \A x \in dataCleaningResults' \ dataCleaningResults :
                 x.datasetId = clean[c].datasetId
     /\ (\A c \in CleanRequests : ~CleanSucceeds(c))
          => dataCleaningResults' = dataCleaningResults]_vars

\* a second clean of a dataset has succeeded, the first one's result is
\* still stored, and the dataset itself is deleted
C9_Witness ==
  /\ reply.op = "cleaning.clean"
  /\ "success" \in DOMAIN reply.result
  /\ Cardinality(CleaningResultsOf(reply.input.datasetId)) = 2
  /\ \E x \in CleaningResultsOf(reply.input.datasetId) :
       x.cleanedCsv # reply.result.cleanedCsv
  /\ autoIncrement.csvDatasets > reply.input.datasetId
  /\ getCsvDataset(reply.input.datasetId) = Null

\* the row the most recent successful clean of d stored: ids are given in
\* the order of the inserts
MostRecent(d) ==
  CHOOSE x \in CleaningResultsOf(d) : \A y \in CleaningResultsOf(d) : y.id <= x.id

\* the same cleaning result: the CSV cleaned, the cleaned CSV and the report
SameResult(x, y) ==
  /\ "cleanedCsv" \in DOMAIN x
  /\ x.originalCsv = y.originalCsv
  /\ x.cleanedCsv = y.cleanedCsv
  /\ x.cleaningReport = y.cleaningReport

\* C10: getResult answers none when the dataset has no cleaning result, and
\* otherwise the result the most recent successful clean stored, also when
\* several cleans were stored in the same second.
C10_LatestIsMostRecentClean ==
  reply.op = "cleaning.getResult" =>
    IF CleaningResultsOf(reply.input.datasetId) = {}
    THEN reply.result = Null
    ELSE SameResult(reply.result, MostRecent(reply.input.datasetId))

(***************************************************************************)
(* Properties of clean's failures                                          *)
(***************************************************************************)
\* the answers that are empty, not JSON, or JSON without the four fields
MalformedClean == {[kind |-> "empty"], NotJson, [kind |-> "null"], NoFields}

\* the step in which clean request c returns or throws
CleanEnds(c) == clean[c].pc = "llm" /\ clean'[c].pc = "idle"

\* C11: a clean whose LLM response is empty, is not parseable JSON or lacks
\* the required fields ends in an error and stores no cleaning result.
C11_MalformedCleanFails ==
  [][\A c \in CleanRequests :
       (CleanEnds(c) /\ reply'.llm \in MalformedClean) =>
         /\ "error" \in DOMAIN reply'.result
         /\ dataCleaningResults' = dataCleaningResults]_vars

\* the rule a word of an error message falls under: 1 timeout, 2 rate
\* limit, 3 network, 4 none
RuleOf(word) ==
  CASE word \in {<<"t", "i", "m", "e", "o", "u", "t">>, <<"E", "T", "I", "M", "E", "D", "O", "U", "T">>} -> 1
    [] word \in {<<"r", "a", "t", "e", " ", "l", "i", "m", "i", "t">>, <<"4", "2", "9">>} -> 2
    [] word \in {<<"n", "e", "t", "w", "o", "r", "k">>, <<"E", "C", "O", "N", "N", "R", "E", "F", "U", "S", "E", "D">>} -> 3
    [] OTHER -> 4

\* the message of the first rule that a word of the error falls under
FirstRuleMessage(ws) ==
  LET first == CHOOSE r \in {RuleOf(ws[i]) : i \in DOMAIN ws} :
                 \A i \in DOMAIN ws : r <= RuleOf(ws[i])
  IN CASE first = 1 ->
            "AI processing timed out. Please reduce data size or try again later."
       [] first = 2 -> "AI service is busy. Please try again later."
       [] first = 3 ->
            "Network error occurred. Please check your internet connection."
       [] OTHER -> "An error occurred during data cleaning."

\* C12: a clean that fails with an error that is not a TRPCError answers the
\* message of the first matching rule in the order timeout, rate limit,
\* network, generic; the TRPCErrors of an empty and of an unparseable
\* response keep their own message.
C12_FirstMatchingRule ==
  reply.op = "cleaning.clean" =>
    /\ reply.llm \in ThrownErrors =>
         reply.result =
           TRPCError("INTERNAL_SERVER_ERROR", FirstRuleMessage(reply.llm.words))
    /\ reply.llm = [kind |-> "empty"] =>
         reply.result.message = "Empty response from AI. Please try again later."
    /\ reply.llm = NotJson =>
         reply.result.message = "Failed to parse AI response. Please try again."
    /\ reply.llm = [kind |-> "null"] =>
         reply.result.message = "An error occurred during data cleaning."

\* a clean has failed with an error whose message names the network first
\* and the rate limit second, and has answered the rate-limit message
C12_Witness ==
  /\ reply.op = "cleaning.clean"
  /\ reply.llm \in ThrownErrors
  /\ Len(reply.llm.words) = 2
  /\ RuleOf(reply.llm.words[1]) = 3
  /\ RuleOf(reply.llm.words[2]) = 2
  /\ reply.result.message = "AI service is busy. Please try again later."

(***************************************************************************)
(* Properties of exportAsDataset and of the datasets                       *)
(***************************************************************************)
\* the step in which export request e has selected its cleaning result
Selects(e) == export[e].pc = "idle" /\ export'[e].pc = "dataset"

\* the number of line breaks of a text
LineBreaks(text) == Cardinality({i \in DOMAIN text : text[i] = NewLine})

\* the text up to its first line break
FirstLine(text) ==
  IF LineBreaks(text) = 0 THEN text
  ELSE SubSeq(text, 1, IndexOf(text, NewLine) - 1)

\* the step stores one new dataset made of the cleaned CSV: its rawCsv is the
\* CSV, its headers the trimmed cells of the first line, its rowCount the
\* number of lines after the first; the cleaning results stay as they are
StoresDatasetOf(cleanedCsv) ==
  /\ \E n \in csvDatasets' \ csvDatasets :
       /\ csvDatasets' = csvDatasets \cup {n}
       /\ n.rawCsv = cleanedCsv
       /\ n.headers = SplitCells(FirstLine(Trim(cleanedCsv)))
       /\ n.rowCount = LineBreaks(Trim(cleanedCsv))
  /\ dataCleaningResults' = dataCleaningResults

\* an export stores one new dataset made of the cleaning result it selected
ExportStoresSelected ==
  [][\A e \in ExportRequests :
       Exports(e) => StoresDatasetOf(export[e].cleaningResult.cleanedCsv)]_vars

\* C13: exportAsDataset creates exactly one new dataset whose rawCsv is the
\* cleanedCsv of the latest cleaning result of the dataset at the time of the
\* request, with the headers and row count of that CSV, and leaves the
\* original dataset and the cleaning results unchanged.
C13_ExportStoresLatest ==
  [][\A e \in ExportRequests :
       /\ Selects(e) =>
            export'[e].cleaningResult.cleanedCsv =
              MostRecent(export'[e].input.datasetId).cleanedCsv
       /\ Exports(e) =>
            StoresDatasetOf(export[e].cleaningResult.cleanedCsv)]_vars

\* C14: the file name of the exported dataset is the newFileName of the
\* request when it is present and not empty, and otherwise "cleaned_"
\* followed by the original file name as it is.
C14_ExportFileName ==
  [][\A e \in ExportRequests :
       Exports(e) =>
         LET given == "newFileName" \in DOMAIN export[e].input
             expected ==
               IF given /\ Len(export[e].input.newFileName) > 0
               THEN export[e].input.newFileName
               ELSE <<"c", "l", "e", "a", "n", "e", "d", "_">>
                    \o export[e].originalDataset.fileName
         IN /\ reply'.result.fileName = expected
            /\ \A n \in csvDatasets' \ csvDatasets : n.fileName = expected]_vars

\* an export with the empty newFileName has stored "cleaned_m (1).csv"
C14_Witness ==
  /\ reply.op = "cleaning.exportAsDataset"
  /\ "success" \in DOMAIN reply.result
  /\ "newFileName" \in DOMAIN reply.input
  /\ reply.input.newFileName = <<>>
  /\ reply.result.fileName = CleanedPrefix \o SpecialName
  /\ \E n \in csvDatasets : n.fileName = reply.result.fileName

\* dataset d is not stored
Missing(d) == \A x \in csvDatasets : x.id # d

\* an export request answers in this step
ExportAnswers ==
  reply' # reply /\ reply'.op = "cleaning.exportAsDataset"

\* C15: exportAsDataset fails with NOT_FOUND and creates no dataset when the
\* dataset has no cleaning result, and when the original dataset is no
\* longer stored although cleaning results of it remain.
C15_ExportNotFound ==
  [][\A e \in ExportRequests :
       /\ Selects(e) => CleaningResultsOf(export'[e].input.datasetId) # {}
       /\ (export[e].pc = "idle" /\ ExportAnswers) =>
            /\ CleaningResultsOf(reply'.input.datasetId) = {}
            /\ reply'.result =
                 TRPCError("NOT_FOUND",
                   "Cleaning result not found. Please run data cleaning first.")
            /\ csvDatasets' = csvDatasets
       /\ (export[e].pc = "dataset" /\ export'[e] # export[e]
             /\ Missing(export[e].input.datasetId)) =>
            /\ export'[e].pc = "idle"
            /\ reply'.result = TRPCError("NOT_FOUND", "Original dataset not found.")
            /\ csvDatasets' = csvDatasets]_vars

\* an export has failed for a dataset that was deleted while a cleaning
\* result of it remains
C15_Witness ==
  /\ reply.op = "cleaning.exportAsDataset"
  /\ reply.result = TRPCError("NOT_FOUND", "Original dataset not found.")
  /\ Missing(reply.input.datasetId)
  /\ CleaningResultsOf(reply.input.datasetId) # {}
  /\ autoIncrement.csvDatasets > reply.input.datasetId

\* an export has failed for a dataset that has no cleaning result
NoResultExport ==
  /\ reply.op = "cleaning.exportAsDataset"
  /\ reply.result.error = "NOT_FOUND"
  /\ CleaningResultsOf(reply.input.datasetId) = {}

\* C16: a stored dataset keeps its userId, fileName, rawCsv, headers and
\* rowCount for as long as it is stored; datasets are added by upload and
\* export only, under ids not used before, and removed by delete only.
C16_DatasetsImmutable ==
  [][/\ \A x \in csvDatasets : \A y \in csvDatasets' : y.id = x.id => y = x
     /\ \A n \in csvDatasets' \ csvDatasets :
          /\ reply'.op \in {"csv.upload", "cleaning.exportAsDataset"}
          /\ n.id >= autoIncrement.csvDatasets
          /\ csvDatasets' = csvDatasets \cup {n}
     /\ \A x \in csvDatasets \ csvDatasets' :
          /\ reply'.op = "csv.delete"
          /\ reply'.input.datasetId = x.id
          /\ csvDatasets' = csvDatasets \ {x}]_vars

\* a dataset made by an export of the first dataset is stored as exported
\* after the first dataset has been cleaned again and deleted
C16_Witness ==
  /\ reply.op = "csv.delete"
  /\ reply.input.datasetId = 1
  /\ Cardinality(CleaningResultsOf(1)) = 2
  /\ \E x \in csvDatasets :
       /\ x.id = 2
       /\ x.fileName = CleanedPrefix \o SpecialName
       /\ x.rawCsv = <<"x">>
       /\ x.headers = <<<<"x">>>>
       /\ x.rowCount = 0

(***************************************************************************)
(* Properties of db.ts without a database                                  *)
(***************************************************************************)
\* the functions of db.ts that select one row, that select rows, and that
\* write
SingleReads == {"getUser", "getCsvDataset", "getChartConfig", "getLatestCleaningResult"}
ListReads == {"getUserCsvDatasets", "getDatasetChartConfigs", "getDatasetInsights"}
Writes ==
  {"createCsvDataset", "deleteCsvDataset", "createDataInsight",
   "deleteDatasetInsights", "createCleaningResult", "createChartConfig",
   "updateChartConfig", "upsertUser"}

\* C17: when getDb resolves to null every read of db.ts returns an absent or
\* empty result and does not throw.
C17_ReadsReturnEmpty ==
  (reply.op \in SingleReads \cup ListReads /\ reply.input.db = "null") =>
    /\ "returned" \in DOMAIN reply.result
    /\ reply.op \in SingleReads => reply.result.returned \in {Undefined, Null}
    /\ reply.op \in ListReads => reply.result.returned = {}

\* C18: when getDb resolves to null every write of db.ts throws, and none
\* returns without having written.
C18_WritesThrow ==
  (reply.op \in Writes /\ reply.input.db = "null") =>
    "thrown" \in DOMAIN reply.result

(***************************************************************************)
(* Properties of parseCSV                                                  *)
(***************************************************************************)
\* the number of commas of a line
Commas(line) == Cardinality({i \in DOMAIN line : line[i] = Comma})

\* the cell neither starts nor ends with whitespace
Trimmed(cell) ==
  cell = <<>> \/ (cell[1] \notin Whitespace /\ cell[Len(cell)] \notin Whitespace)

C20_ReferentialIntegrity ==
  /\ \A x \in dataInsights : ~Missing(x.datasetId)
  /\ \A x \in dataCleaningResults : ~Missing(x.datasetId)
  /\ \A x \in chartConfigs : ~Missing(x.datasetId)

(***************************************************************************)
(* Properties of a generate request that fails                             *)
(***************************************************************************)
\* the step with which request r ends in the error before its first insert
FailsAtLlm(r) ==
  /\ generate[r].pc = "llm"
  /\ generate'[r].pc = "idle"
  /\ history'[r].outcome = "failed"

\* C21 as stated: a generate request whose LLM call fails leaves its
\* dataset with no insight row.
C21_FailureLeavesNone ==
  [][\A r \in GenerateRequests :
       FailsAtLlm(r) => StoredFor(dataInsights', generate[r].datasetId) = {}]_vars

\* C21 as amended: such a request inserts no row and restores none of the
\* rows its delete removed; when no statement of another generate request on
\* the dataset ran beside it, the dataset is left with no insight row.
C21_FailureRestoresNone ==
  [][\A r \in GenerateRequests :
       FailsAtLlm(r) =>
         /\ dataInsights' = dataInsights
         /\ history'[r].inserted = {}
         /\ \A x \in StoredFor(dataInsights', generate[r].datasetId) :
              x.id >= history[r].firstNew
         /\ ~history'[r].overlapped =>
              StoredFor(dataInsights', generate[r].datasetId) = {}]_vars

\* a request that ran alone has failed on a dataset for which the other
\* request had stored a batch before: the batch is gone and nothing is stored
C21_Witness ==
  /\ reply = GenerateReply(GenerateFailed)
  /\ \E r, q \in GenerateRequests :
       /\ history[r].outcome = "failed"
       /\ ~history[r].overlapped
       /\ history[r].inserted = {}
       /\ generate[r].pc = "idle"
       /\ history[q].outcome = "success"
       /\ history[q].datasetId = history[r].datasetId
       /\ history[q].inserted # {}
       /\ \A x \in history[q].inserted : x.id < history[r].firstNew
       /\ StoredFor(dataInsights, history[r].datasetId) = {}

(***************************************************************************)
(* Properties of the statistics and of the columns they are attached to    *)
(***************************************************************************)
\* the number of values below x, and the number of values not above x
Below(x) == Cardinality({i \in DOMAIN values : Before(values[i], x)})
NotAbove(x) == Cardinality({i \in DOMAIN values : Leq(values[i], x)})

\* x is the element at index k (from 0) of the values in ascending order
IsSortedAt(x, k) ==
  /\ x \in Range(values)
  /\ Below(x) <= k
  /\ k < NotAbove(x)

\* C22: of n values in ascending order s, the median is s[floor(n/2)], q1 is
\* s[floor(n*0.25)], q3 is s[floor(n*0.75)], min is s[0] and max is s[n-1],
\* and each of these indices is within 0..n-1.
C22_StatisticsIndices ==
  statistics # NoValue =>
    LET n == Len(values)
    IN /\ IsSortedAt(statistics.median, n \div 2)
       /\ IsSortedAt(statistics.q1, n \div 4)
       /\ IsSortedAt(statistics.q3, (3 * n) \div 4)
       /\ IsSortedAt(statistics.min, 0)
       /\ IsSortedAt(statistics.max, n - 1)
       /\ {n \div 2, n \div 4, (3 * n) \div 4} \subseteq 0..(n - 1)

\* statistics of four values given out of order: the median is the upper of
\* the two middle values and is above the lower one
C22_Witness ==
  /\ statistics # NoValue
  /\ Len(values) = 4
  /\ Sorted(values) # values
  /\ Below(statistics.median) = 2
  /\ Below(statistics.q1) = 1
  /\ statistics.q3 = statistics.max

\* C23: a column has a statistics record if and only if it is classified
\* numeric, and the statistics are those of a list that is not empty: the
\* values of the column that parse.
C23_StatisticsIffNumeric ==
  analysis # NoValue =>
    \A c \in DOMAIN analysis.columns :
      LET column == analysis.columns[c]
      IN /\ "statistics" \in DOMAIN column <=> column.type = "numeric"
         /\ "statistics" \in DOMAIN column =>
              /\ NumericRows(rows, c - 1) # {}
              /\ column.statistics.mean.n = Cardinality(NumericRows(rows, c - 1))
              /\ column.statistics.median # Undefined

\* a table has been analysed that has a numeric column with statistics, a
\* categorical column in which a value parses, and a column with no value
C23_Witness ==
  /\ analysis # NoValue
  /\ \E c, d, e \in DOMAIN analysis.columns :
       /\ analysis.columns[c].type = "numeric"
       /\ "statistics" \in DOMAIN analysis.columns[c]
       /\ analysis.columns[d].type = "categorical"
       /\ NumericRows(rows, d - 1) # {}
       /\ "statistics" \notin DOMAIN analysis.columns[d]
       /\ PresentRows(rows, e - 1) = {}
       /\ "statistics" \notin DOMAIN analysis.columns[e]

\* a table with no row has been analysed: its column is categorical and has
\* no statistics
NoRowsAnalysed ==
  /\ analysis # NoValue
  /\ rows = <<>>
  /\ \A c \in DOMAIN analysis.columns :
       analysis.columns[c].type = "categorical"

\* C24: every value that reaches calculateStatistics is a finite number: the
\* statistics of a column are those of its cells that parse to a finite
\* number, and the least and the greatest of them are finite.
C24_StatisticsOfFinite ==
  analysis # NoValue =>
    \A c \in DOMAIN analysis.columns :
      "statistics" \in DOMAIN analysis.columns[c] =>
        LET finite == {i \in PresentRows(rows, c - 1) :
                         ParseFloat(rows[i][c]).k = "fin"}
        IN /\ analysis.columns[c].statistics.mean.n = Cardinality(finite)
           /\ analysis.columns[c].statistics.min.k = "fin"
           /\ analysis.columns[c].statistics.max.k = "fin"

(***************************************************************************)
(* Properties of the quote-aware parser                                    *)
(***************************************************************************)
\* the commas of a line that have an even number of quotes before them
SplittingCommas(line) ==
  {i \in DOMAIN line :
     /\ line[i] = Comma
     /\ Cardinality({j \in 1..(i - 1) : line[j] = Quote}) % 2 = 0}

\* C25: the quote-aware parser gives one cell more than the line has commas
\* preceded by an even number of quotes, no cell holds a quote, and every
\* cell is trimmed.
C25_QuotedCommasKept ==
  reply.op = "parseLine" =>
    /\ Len(reply.result) = Cardinality(SplittingCommas(reply.input.line)) + 1
    /\ \A i \in DOMAIN reply.result :
         /\ Quote \notin Range(reply.result[i])
         /\ Trimmed(reply.result[i])

\* the line ",",  (a quoted comma, then a comma) has parsed to the cells ","
\* and ""
C25_Witness ==
  /\ reply.op = "parseLine"
  /\ reply.input.line = <<Quote, Comma, Quote, Comma>>
  /\ reply.result = <<<<Comma>>, <<>>>>

(***************************************************************************)
(* Properties of a generate request that fails in its insert loop          *)
(***************************************************************************)
\* C26: whenever a generate request has ended in the error, no insight of
\* its LLM response is stored, an insert that throws partway through the
\* batch included.
C26_FailureStoresNone ==
  \A r \in GenerateRequests :
    history[r].outcome = "failed" => history[r].inserted \cap dataInsights = {}

(***************************************************************************)
(* Properties of generate and clean towards the other datasets             *)
(***************************************************************************)
\* the step is one of a generate request for dataset d
GenerateStep(d) ==
  \E r \in GenerateRequests :
    /\ generate'[r] # generate[r]
    /\ IF generate[r].pc = "idle" THEN generate'[r].datasetId = d
       ELSE generate[r].datasetId = d

\* the step is one of a clean request for dataset d
CleanStep(d) ==
  \E c \in CleanRequests :
    /\ clean'[c] # clean[c]
    /\ IF clean[c].pc = "idle" THEN clean'[c].datasetId = d
       ELSE clean[c].datasetId = d

\* C27: a step of generate or clean for dataset d leaves the insight rows
\* and the cleaning-result rows of every other dataset, and all dataset and
\* chart-config rows, as they were, whether the request succeeds or fails.
C27_OtherDatasetsUntouched ==
  [][\A d \in DatasetIds :
       GenerateStep(d) \/ CleanStep(d) =>
         /\ \A e \in DatasetIds \ {d} :
              /\ StoredFor(dataInsights', e) = StoredFor(dataInsights, e)
              /\ StoredFor(dataCleaningResults', e) = StoredFor(dataCleaningResults, e)
         /\ csvDatasets' = csvDatasets
         /\ chartConfigs' = chartConfigs]_vars

\* generate and clean have succeeded for dataset 2 while dataset 1 has an
\* insight row, a cleaning result and a chart configuration
C27_Witness ==
  /\ history["g1"].datasetId = 2
  /\ history["g1"].outcome = "success"
  /\ StoredFor(dataInsights, 2) # {}
  /\ StoredFor(dataCleaningResults, 2) # {}
  /\ StoredFor(dataInsights, 1) # {}
  /\ StoredFor(dataCleaningResults, 1) # {}
  /\ StoredFor(chartConfigs, 1) # {}
  /\ Cardinality(csvDatasets) = 2

(***************************************************************************)
(* Properties of clean followed by export                                  *)
(***************************************************************************)
\* the last response is that of a clean that succeeded and returned csv
CleanReturned(csv) ==
  /\ reply.op = "cleaning.clean"
  /\ "success" \in DOMAIN reply.result
  /\ reply.result.cleanedCsv = csv

\* C28: when a clean has succeeded with the headers H and the rows R of the
\* LLM's answer and its result is exported, the new dataset has the headers
\* H, each trimmed, and as many rows as R.
C28_ExportKeepsShape ==
  [][\A e \in ExportRequests :
       Exports(e) /\ CleanReturned(export[e].cleaningResult.cleanedCsv) =>
         \A n \in csvDatasets' \ csvDatasets :
           LET H == reply.llm.fields.cleanedHeaders
               R == reply.llm.fields.cleanedRows
           IN /\ n.headers = [i \in DOMAIN H |-> Trim(H[i])]
              /\ n.rowCount = Len(R)]_vars

TypesAvailable ==
  \A idx \in Displayed :
    getCustomConfig(idx, BaseChart(idx)).type \in availableTypes(BaseChart(idx))

\* a step that stores a configuration stores it for one index and leaves the
\* configuration of every other index as it was
OthersKept ==
  [][customConfigs' # customConfigs =>
       \E idx \in DOMAIN customConfigs' :
         \A j \in (DOMAIN customConfigs \cup DOMAIN customConfigs') \ {idx} :
           /\ j \in DOMAIN customConfigs
           /\ j \in DOMAIN customConfigs'
           /\ customConfigs'[j] = customConfigs[j]]_vars

\* C30: after any sequence of Apply Changes and data changes the type of
\* every displayed chart is one of the types available for its base type,
\* and applying a configuration to one chart index leaves the stored
\* configuration of every other index unchanged.
C30_ChartTypesAvailable == []TypesAvailable /\ OthersKept

====
